---- MODULE Spec2Model ----
(***************************************************************************)
(* Model of the cohesion validator of the grid-intelligence pipeline       *)
(* (src/grid-intelligence/end_to_end_analysis.py, class EndToEndValidator).*)
(*                                                                         *)
(* The validator is a read-only audit of files: the source modules in the  *)
(* working directory and the artifacts under data/.  The files are the     *)
(* state it reads; validation_results is the state it writes.              *)
(*                                                                         *)
(* Numbers.  Python floats are kept as exact fixed-point integers:         *)
(*   - an integration check's score is in hundredths (3333 is 33.33);      *)
(*   - a component score is in 1/400ths (40000 is 100.0);                  *)
(*   - cohesion_score is in tenths (1000 is 100.0).                        *)
(* No value the validator rounds lies on a rounding tie, and every product *)
(* and sum is far from the next representable boundary, so the fixed-point *)
(* result is the float result.                                             *)
(***************************************************************************)
EXTENDS Integers, Sequences, FiniteSets, TLC

(***************************************************************************)
(* Bounds of the audited inputs.                                           *)
(***************************************************************************)
\* largest documents_analyzed and list length in the analysis JSON
MaxRecs == 1
\* largest row count of a store table or export file (besides the large counts of DbRowCounts and CsvRowCounts)
MaxRows == 2
\* largest number of widgets / data sources in the dashboard config
MaxItems == 3
\* how many times run_complete_analysis is run over the same files
MaxRuns == 2

(***************************************************************************)
(* File names and keys.                                                    *)
(***************************************************************************)
\* validate_data_ingestion: the three source modules
Sources == {"fingrid_api_client.py", "entso_e_client.py", "tso_document_harvester.py"}

\* validate_dashboard_config: the builder module
Builder == "arcgis_dashboard_builder.py"

\* validate_data_flow: the stages, in dict insertion order
StageOrder ==
    << "stage_1_ingestion", "stage_2_processing", "stage_3_database",
       "stage_4_exports", "stage_5_dashboard" >>

\* validate_integration_points: the checks, in dict insertion order
CheckOrder ==
    << "data_format_consistency", "api_to_database_flow",
       "database_to_export_flow", "export_to_dashboard_flow" >>

\* validate_database_creation: expected_tables
ExpectedTables ==
    << "grid_capacity", "grid_connections", "grid_constraints",
       "investment_projects", "document_metadata" >>

\* validate_arcgis_exports: expected_files
ExpectedFiles ==
    << "grid_capacity_arcgis.csv", "grid_connections_arcgis.csv",
       "grid_investments_arcgis.csv" >>

\* check_data_format_consistency / check_export_dashboard_flow / identify_gaps: csv_files
CsvFiles == << "grid_capacity_arcgis.csv", "grid_connections_arcgis.csv" >>

\* check_data_format_consistency: required_keys
RequiredKeys == {"documents_analyzed", "capacity_data", "connection_data"}

\* check_data_format_consistency: expected_cols
ExpectedCols == {"capacity_mw", "document_source", "page_number"}

AnalysisKeys ==
    {"documents_analyzed", "capacity_data", "connection_data",
     "constraint_data", "investment_data"}

Range(s) == {s[i] : i \in DOMAIN s}

VARIABLES
    cwd_files,        \* modules present in the working directory
    data_dir,         \* whether data/ exists
    analysis_file,    \* data/grid_intelligence_analysis.json
    report_md,        \* whether data/grid_intelligence_report.md exists
    db_file,          \* data/grid_intelligence.db
    csv_files,        \* data/<name>.csv for the three export files
    config_file,      \* data/arcgis_dashboard_config.json
    cohesion_report,  \* data/end_to_end_cohesion_report.md
    validation_results, \* self.validation_results
    stage_scores,     \* calculate_data_flow_score's local list
    pc,               \* position in run_complete_analysis
    run,              \* number of the current run
    first_run         \* what the first run returned (history)

artifacts == << cwd_files, data_dir, analysis_file, report_md, db_file, csv_files, config_file >>

\* the files the validator only opens for reading
read_only_files == << cwd_files, data_dir, analysis_file, report_md, csv_files, config_file >>

\* GridDocumentAnalyzer.analyze_pdf
VARIABLES
    pdf_file,         \* the PDF document given to analyze_pdf
    page_num,         \* index of the next page of the loop over pdf.pages
    doc_analysis,     \* analyze_pdf's dict `analysis`
    analyzer_pc       \* position in analyze_pdf

analyzer_vars == << pdf_file, page_num, doc_analysis, analyzer_pc >>

\* GridIntelligenceDatabase.create_database
VARIABLES
    analysis_data,    \* self.analysis_data, the analysis JSON as loaded
    store,            \* data/grid_intelligence.db: what is committed
    db_conn,          \* the store as the open connection `conn` sees it
    loader_pc,        \* position in create_database
    loads,            \* number of create_database invocations so far
    load_error,       \* the exception the current invocation raised
    store_at_connect, \* the store when the current invocation connected (history)
    committed_loads   \* number of invocations that committed (history)

loader_vars ==
    << analysis_data, store, db_conn, loader_pc, loads, load_error,
       store_at_connect, committed_loads >>

\* TSODocumentHarvester.download_document
VARIABLES
    local_files,      \* the files under output_dir, by path
    doc_info,         \* the document given to download_document
    response,         \* what session.get answers for doc_info['url']
    download_result,  \* what download_document returned
    requests_sent,    \* number of session.get calls so far
    fetched,          \* whether the current call has called session.get
    downloads,        \* number of download_document calls so far
    before_call,      \* what the previous call was given and did, and the files it left
    harvester_pc      \* position in download_document

download_vars ==
    << local_files, doc_info, response, download_result, requests_sent, fetched,
       downloads, before_call, harvester_pc >>

\* TSODocumentHarvester.discover_documents
VARIABLES
    country,          \* the country given to discover_documents
    url_index,        \* position of the loop in tso_info['document_urls']
    scanned,          \* the base URLs attempted so far, with what each answered
    discovered_docs,  \* discovered_docs
    discover_pc       \* position in discover_documents

discover_vars == << country, url_index, scanned, discovered_docs, discover_pc >>

\* TSODocumentHarvester.extract_text_from_pdf
VARIABLES
    pdf_path,         \* the file at the path given to extract_text_from_pdf
    extract_page,     \* position of the running loop in the pages
    extracted,        \* text
    extract_result,   \* what extract_text_from_pdf returned
    fallback_tried,   \* whether PyPDF2 has been given the file
    extract_pc        \* position in extract_text_from_pdf

extract_vars ==
    << pdf_path, extract_page, extracted, extract_result, fallback_tried, extract_pc >>

\* TSODocumentHarvester.harvest_all_countries and harvest_country_documents
VARIABLES
    country_index,    \* position of harvest_all_countries in tso_sources.keys()
    all_results,      \* all_results
    harvest_results,  \* harvest_country_documents' dict, then what it returned
    doc_index,        \* position of the loop in discovered_docs
    doc_errors,       \* documents of this country whose processing raised (history)
    harvest_pc        \* position in the two functions

harvest_vars ==
    << country_index, all_results, harvest_results, doc_index, doc_errors, harvest_pc >>

harvester_vars == << download_vars, discover_vars, extract_vars, harvest_vars >>

\* the components that run before the validator
upstream_vars == << analyzer_vars, loader_vars, harvester_vars >>

validator_vars ==
    << cwd_files, data_dir, analysis_file, report_md, db_file, csv_files,
       config_file, cohesion_report, validation_results, stage_scores, pc,
       run, first_run >>

vars == << validator_vars, upstream_vars >>

(***************************************************************************)
(* The audited files.  Each file is a record whose kind says whether it    *)
(* exists and whether its reader accepts it; the other fields are what the *)
(* validator's readers return for it (0, {} or << >> when they return      *)
(* nothing).                                                               *)
(***************************************************************************)
\* json.load of the analysis file: kind "invalid" is any content on which
\* json.load or the .get calls raise; keys are the object's keys; a list is
\* kept as its length
AnalysisFile(kind, keys, docs, cap, conn, cons, inv) ==
    [ kind |-> kind, keys |-> keys,
      documents_analyzed |-> docs, capacity_data |-> cap,
      connection_data |-> conn, constraint_data |-> cons,
      investment_data |-> inv ]

AbsentAnalysis == AnalysisFile("absent", {}, 0, 0, 0, 0, 0)
InvalidAnalysis == AnalysisFile("invalid", {}, 0, 0, 0, 0, 0)

\* an object holding exactly the keys ks, every value drawn from 0..MaxRecs
AnalysisObjects(ks) ==
    { AnalysisFile("object", ks, d, c, n, t, i) :
        d \in (IF "documents_analyzed" \in ks THEN 0..MaxRecs ELSE {0}),
        c \in (IF "capacity_data" \in ks THEN 0..MaxRecs ELSE {0}),
        n \in (IF "connection_data" \in ks THEN 0..MaxRecs ELSE {0}),
        t \in (IF "constraint_data" \in ks THEN 0..MaxRecs ELSE {0}),
        i \in (IF "investment_data" \in ks THEN 0..MaxRecs ELSE {0}) }

AnalysisFine ==
    {AbsentAnalysis, InvalidAnalysis}
    \cup AnalysisObjects({})
    \cup AnalysisObjects(AnalysisKeys)
    \cup UNION { AnalysisObjects(AnalysisKeys \ {k}) : k \in RequiredKeys }

FullAnalysis == AnalysisFile("object", AnalysisKeys, 1, 1, 1, 1, 1)

AnalysisCoarse ==
    { AbsentAnalysis, InvalidAnalysis,
      AnalysisFile("object", {}, 0, 0, 0, 0, 0),
      AnalysisFile("object", AnalysisKeys, 0, 0, 0, 0, 0),
      AnalysisFile("object", AnalysisKeys, 1, 0, 0, 0, 0),
      AnalysisFile("object", AnalysisKeys, 0, 1, 1, 1, 1),
      AnalysisFile("object", AnalysisKeys, 1, 1, 1, 1, 0),
      FullAnalysis }

\* the SQLite store: kind "unreadable" is a file sqlite3 cannot query;
\* tables are the expected tables it holds, extra_tables the number of other
\* user tables, rows the row count of each table, capacity_mw_column whether
\* grid_capacity has that column, capacity_nonnull the number of
\* grid_capacity rows whose capacity_mw is not NULL
OtherTables == Range(ExpectedTables) \ {"grid_capacity"}

DbFile(kind, tables, extra, views, rows, col, nonnull) ==
    [ kind |-> kind, tables |-> tables, extra_tables |-> extra,
      views |-> views, rows |-> rows, capacity_mw_column |-> col,
      capacity_nonnull |-> nonnull ]

NoRows == [t \in Range(ExpectedTables) |-> 0]

AbsentDb == DbFile("absent", {}, 0, 0, NoRows, FALSE, 0)
UnreadableDb == DbFile("unreadable", {}, 0, 0, NoRows, FALSE, 0)
EmptyDb == DbFile("sqlite", {}, 0, 0, NoRows, FALSE, 0)

\* the first k tables of ExpectedTables after grid_capacity hold one row
Populated(k, cap) ==
    [t \in Range(ExpectedTables) |->
        IF t = "grid_capacity" THEN cap
        ELSE IF \E i \in 2..(k + 1) : ExpectedTables[i] = t THEN 1 ELSE 0]

\* row counts of grid_capacity: small ones, and one of which 79% and 80% are
\* whole numbers of rows
DbRowCounts == 0..MaxRows \cup {100}

\* row counts of an export file
CsvRowCounts == 0..MaxRows \cup {79, 80}

\* how many of r capacity rows may carry a value
NonNullCounts(r) == {n \in CsvRowCounts \cup {r} : n <= r}

\* all five tables created by create_tables, populated to varying degrees
DbSchemaFine ==
    UNION { { DbFile("sqlite", Range(ExpectedTables), 0, v, Populated(k, r), TRUE, n) :
                v \in {0, 3}, k \in 0..4, n \in {0, r} } : r \in DbRowCounts }
    \cup
    UNION { { DbFile("sqlite", Range(ExpectedTables), 0, 3, Populated(4, r), TRUE, n) :
                n \in NonNullCounts(r) } : r \in DbRowCounts }

\* stores that hold only some of the expected tables, or foreign tables
DbTablesFine ==
    { DbFile("sqlite", ts, x, 0,
             [t \in Range(ExpectedTables) |-> IF t \in ts /\ t \in ps THEN 1 ELSE 0],
             c /\ "grid_capacity" \in ts,
             IF c /\ "grid_capacity" \in ts /\ "grid_capacity" \in ps THEN 1 ELSE 0) :
        ts \in SUBSET Range(ExpectedTables),
        ps \in { {}, {"grid_capacity"}, OtherTables, Range(ExpectedTables) },
        x \in 0..1, c \in BOOLEAN }

FullDb == DbFile("sqlite", Range(ExpectedTables), 0, 3, Populated(4, MaxRows), TRUE, MaxRows)

DbCoarse ==
    { AbsentDb, UnreadableDb, EmptyDb,
      DbFile("sqlite", Range(ExpectedTables), 0, 3, Populated(0, 0), TRUE, 0),
      DbFile("sqlite", Range(ExpectedTables), 0, 3, Populated(3, 0), TRUE, 0),
      DbFile("sqlite", Range(ExpectedTables), 0, 3, Populated(3, MaxRows), TRUE, 0),
      FullDb }

\* an export CSV: kind "unreadable" is a file pd.read_csv rejects outright
\* (an empty file), kind "ragged" one whose header parses and whose rows do
\* not (read_csv raises, read_csv(nrows=0) does not); rows and columns are
\* len(df) and df.columns
CsvFile(kind, rows, columns) == [kind |-> kind, rows |-> rows, columns |-> columns]

AbsentCsv == CsvFile("absent", 0, {})
UnreadableCsv == CsvFile("unreadable", 0, {})

\* create_tables: the columns of grid_capacity, which export_for_arcgis writes
CapacityColumns ==
    {"id", "document_source", "page_number", "capacity_mw", "capacity_unit",
     "description", "project_name", "location", "status", "created_at"}

\* create_views: the columns of connection_summary and investment_timeline
ConnectionColumns == {"connection_type", "requirement_count", "sources"}
InvestmentColumns == {"timeline", "project_count", "total_investment", "currency"}

\* headers an export file may carry: the exporter's, a foreign one with more
\* than two columns, and one with no more than two
CapacityHeaders == {CapacityColumns, ConnectionColumns, {"capacity_mw", "location"}}

CapacityCsvFine ==
    {AbsentCsv, UnreadableCsv}
    \cup { CsvFile("ragged", 0, h) : h \in CapacityHeaders }
    \cup { CsvFile("csv", r, h) : r \in CsvRowCounts, h \in CapacityHeaders }

OtherCsvFine(header) ==
    { AbsentCsv, UnreadableCsv, CsvFile("ragged", 0, header),
      CsvFile("csv", 0, header), CsvFile("csv", 1, header),
      CsvFile("csv", 1, {"connection_type", "requirement_count"}) }

Exports(cap, conn, inv) ==
    [f \in Range(ExpectedFiles) |->
        IF f = "grid_capacity_arcgis.csv" THEN cap
        ELSE IF f = "grid_connections_arcgis.csv" THEN conn
        ELSE inv]

FullCapacityCsv == CsvFile("csv", MaxRows, CapacityColumns)
FullConnectionCsv == CsvFile("csv", 1, ConnectionColumns)
FullInvestmentCsv == CsvFile("csv", 1, InvestmentColumns)

NoExports == Exports(AbsentCsv, AbsentCsv, AbsentCsv)
FullExports == Exports(FullCapacityCsv, FullConnectionCsv, FullInvestmentCsv)

ExportsCoarse ==
    { NoExports, FullExports,
      Exports(FullCapacityCsv, AbsentCsv, AbsentCsv),
      Exports(FullCapacityCsv, FullConnectionCsv, AbsentCsv),
      Exports(AbsentCsv, FullConnectionCsv, FullInvestmentCsv),
      Exports(UnreadableCsv, FullConnectionCsv, FullInvestmentCsv),
      Exports(CsvFile("csv", 0, CapacityColumns), FullConnectionCsv, FullInvestmentCsv) }

ExportsFine ==
    { Exports(c, n, i) :
        c \in {AbsentCsv, FullCapacityCsv},
        n \in OtherCsvFine(ConnectionColumns),
        i \in OtherCsvFine(InvestmentColumns) }

\* the dashboard config: kind "invalid" is any content on which json.load or
\* config.get raises; widgets is config.get('widgets', []), each widget kept
\* as its type, whether str(w).lower() contains 'capacity', and whether it is
\* a dict (w.get raises on anything else); data_sources is
\* len(config.get('data_sources', []))
Widget(type, capacity, is_dict) ==
    [type |-> type, capacity |-> capacity, is_dict |-> is_dict]

ConfigFile(kind, widgets, sources) ==
    [kind |-> kind, widgets |-> widgets, data_sources |-> sources]

AbsentConfig == ConfigFile("absent", << >>, 0)
InvalidConfig == ConfigFile("invalid", << >>, 0)

\* generate_dashboard_config: the three widgets it writes
IndicatorWidget == Widget("indicator", TRUE, TRUE)
BarChartWidget == Widget("bar_chart", FALSE, TRUE)
TimelineWidget == Widget("timeline", FALSE, TRUE)

WidgetKinds ==
    { IndicatorWidget, BarChartWidget, TimelineWidget, Widget("", TRUE, FALSE) }

WidgetLists == UNION { [1..n -> WidgetKinds] : n \in 0..MaxItems }

ConfigFine ==
    {AbsentConfig, InvalidConfig}
    \cup { ConfigFile("object", w, n) : w \in WidgetLists, n \in 0..MaxItems }

\* generate_dashboard_config: the config it writes
FullConfig == ConfigFile("object", << IndicatorWidget, BarChartWidget, TimelineWidget >>, 3)

ConfigCoarse ==
    { AbsentConfig, InvalidConfig, ConfigFile("object", << >>, 0),
      ConfigFile("object", << IndicatorWidget >>, 2),
      ConfigFile("object", << BarChartWidget, TimelineWidget, TimelineWidget >>, 3),
      FullConfig }

CwdCoarse ==
    { {}, {Builder}, Sources, Sources \cup {Builder},
      {"fingrid_api_client.py", "entso_e_client.py"} }

(***************************************************************************)
(* The sets of files a run may find.  Coarse: every combination of a few   *)
(* contents of each file.  Fine families: one file (or the store with its  *)
(* capacity export) over all its contents, the others all absent or all as *)
(* a complete pipeline run leaves them.                                    *)
(***************************************************************************)
Files(cwd, dir, analysis, report, db, csv, config) ==
    [ cwd |-> cwd, data_dir |-> dir, analysis |-> analysis, report_md |-> report,
      db |-> db, csv |-> csv, config |-> config ]

NothingThere == Files({}, TRUE, AbsentAnalysis, FALSE, AbsentDb, NoExports, AbsentConfig)

PipelineDone ==
    Files(Sources \cup {Builder}, TRUE, FullAnalysis, TRUE, FullDb, FullExports, FullConfig)

Corners == {NothingThere, PipelineDone}

(***************************************************************************)
(* Readers.                                                                *)
(***************************************************************************)
\* Path.exists()
Exists(f) == f.kind # "absent"

\* sqlite3.connect(db_file): opens the file, and creates an empty one where
\* there is none
sqlite3_connect(f) == IF f.kind = "absent" THEN EmptyDb ELSE f

ConnectGuarded_Never(f) == TRUE

\* `if db_file.exists():` in front of every sqlite3.connect of the validator
ConnectGuarded(f) == Exists(f)

\* the store file after a validation step that connects to it
StoreAfterConnect(f) == IF ConnectGuarded(f) THEN sqlite3_connect(f) ELSE f

\* dict.get(key, 0) and len(dict.get(key, [])) on the loaded analysis JSON
Get(a, key) == IF key \in a.keys THEN a[key] ELSE 0

Min(a, b) == IF a < b THEN a ELSE b

\* sum([...]) of booleans
CountTrue(bs) == Cardinality({i \in DOMAIN bs : bs[i]})

\* round(x, 1) of a value in hundredths
Round1(h) == ((h + 5) \div 10) * 10

(***************************************************************************)
(* validate_data_flow: the five stages.                                    *)
(***************************************************************************)
\* json.load and .get at the top of validate_data_ingestion are not guarded
DataFlowRaises == analysis_file.kind = "invalid"

IngestionStatus(sources_configured, documents_processed) ==
    IF sources_configured >= 3 /\ documents_processed > 0 THEN "complete"
    ELSE IF sources_configured >= 3 THEN "configured"
    ELSE "incomplete"

validate_data_ingestion ==
    LET sources_configured == Cardinality({m \in Sources : m \in cwd_files})
        loaded == Exists(analysis_file)
        documents_processed == IF loaded THEN Get(analysis_file, "documents_analyzed") ELSE 0
    IN  [ sources_configured |-> sources_configured,
          api_clients_ready |-> IF loaded THEN 2 ELSE 0,
          document_processing |-> IF loaded THEN 1 ELSE 0,
          documents_processed |-> documents_processed,
          data_points_extracted |-> IF loaded THEN Get(analysis_file, "capacity_data") ELSE 0,
          status |-> IngestionStatus(sources_configured, documents_processed) ]

ProcessingStatus(pdf_analysis_complete, data_extraction_successful, categorization_working) ==
    IF pdf_analysis_complete /\ data_extraction_successful /\ categorization_working
    THEN "complete"
    ELSE IF pdf_analysis_complete THEN "partial"
    ELSE "failed"

\* nlp_extraction_quality is min(100, total / 10), kept in tenths
validate_data_processing ==
    LET loaded == Exists(analysis_file)
        pdf_analysis_complete == loaded /\ Get(analysis_file, "documents_analyzed") > 0
        data_extraction_successful == loaded /\ Get(analysis_file, "capacity_data") > 0
        categorization_working ==
            /\ loaded
            /\ Get(analysis_file, "connection_data") > 0
            /\ Get(analysis_file, "constraint_data") > 0
            /\ Get(analysis_file, "investment_data") > 0
        total_extractions ==
            Get(analysis_file, "capacity_data") + Get(analysis_file, "connection_data")
            + Get(analysis_file, "constraint_data") + Get(analysis_file, "investment_data")
    IN  [ pdf_analysis_complete |-> pdf_analysis_complete,
          data_extraction_successful |-> data_extraction_successful,
          categorization_working |-> categorization_working,
          nlp_extraction_quality |-> IF loaded THEN Min(1000, total_extractions) ELSE 0,
          report_generated |-> report_md,
          status |-> ProcessingStatus(pdf_analysis_complete, data_extraction_successful,
                                      categorization_working) ]

\* the status validate_database_creation returns from its except branch
CorruptedStatus == "corrupted"

\* mutant: three populated tables are enough for 'complete'
DatabaseStatus_ThreePopulated(database_exists, tables_created, data_inserted) ==
    IF database_exists /\ tables_created >= 5 /\ data_inserted >= 3 THEN "complete"
    ELSE IF database_exists THEN "partial"
    ELSE "missing"

DatabaseStatus(database_exists, tables_created, data_inserted) ==
    IF database_exists /\ tables_created >= 5 /\ data_inserted >= 4 THEN "complete"
    ELSE IF database_exists THEN "partial"
    ELSE "missing"

DataIntegrity(tables_created, data_inserted) ==
    IF tables_created >= 5 /\ data_inserted >= 4 THEN 100
    ELSE IF tables_created >= 5 THEN 80
    ELSE 40

\* SELECT COUNT(*) on a table the store lacks raises inside the inner try
validate_database_creation ==
    LET database_exists == Exists(db_file)
        readable == db_file.kind = "sqlite"
        tables_created ==
            IF readable THEN Cardinality(db_file.tables) + db_file.extra_tables ELSE 0
        counted == {t \in Range(ExpectedTables) : readable /\ t \in db_file.tables}
        data_inserted == Cardinality({t \in counted : db_file.rows[t] > 0})
    IN  [ database_exists |-> database_exists,
          tables_created |-> tables_created,
          data_inserted |-> data_inserted,
          views_created |-> IF readable THEN db_file.views ELSE 0,
          data_counts |-> [t \in counted |-> db_file.rows[t]],
          data_integrity |->
              IF readable THEN DataIntegrity(tables_created, data_inserted) ELSE 0,
          status |->
              IF database_exists /\ ~readable THEN CorruptedStatus
              ELSE DatabaseStatus(database_exists, tables_created, data_inserted) ]

ExportsStatus(csv_files_created, data_consistency) ==
    IF csv_files_created >= 3 /\ data_consistency >= 3 THEN "complete"
    ELSE IF csv_files_created >= 2 THEN "partial"
    ELSE "incomplete"

ArcgisCompatibility(csv_files_created) ==
    IF csv_files_created >= 3 THEN 100
    ELSE IF csv_files_created >= 2 THEN 80
    ELSE 40

\* file_sizes (st_size of each file) is reported only and not kept
validate_arcgis_exports ==
    LET created == {f \in Range(ExpectedFiles) : Exists(csv_files[f])}
        consistent ==
            {f \in created :
                /\ csv_files[f].kind = "csv"
                /\ csv_files[f].rows > 0
                /\ Cardinality(csv_files[f].columns) > 2}
    IN  [ csv_files_created |-> Cardinality(created),
          data_consistency |-> Cardinality(consistent),
          arcgis_compatibility |-> ArcgisCompatibility(Cardinality(created)),
          status |-> ExportsStatus(Cardinality(created), Cardinality(consistent)) ]

\* mutant: the builder module alone makes the dashboard 'configured'
DashboardStatus_BuilderSuffices(deployment_ready, builder_available, config_exists) ==
    IF deployment_ready /\ builder_available THEN "ready"
    ELSE IF config_exists \/ builder_available THEN "configured"
    ELSE "missing"

DashboardStatus(deployment_ready, builder_available, config_exists) ==
    IF deployment_ready /\ builder_available THEN "ready"
    ELSE IF config_exists THEN "configured"
    ELSE "missing"

validate_dashboard_config ==
    LET config_exists == Exists(config_file)
        loaded == config_file.kind = "object"
        widget_definitions == IF loaded THEN Len(config_file.widgets) ELSE 0
        data_source_mappings == IF loaded THEN config_file.data_sources ELSE 0
        deployment_ready == widget_definitions >= 3 /\ data_source_mappings >= 3
        builder_available == Builder \in cwd_files
    IN  [ config_exists |-> config_exists,
          widget_definitions |-> widget_definitions,
          data_source_mappings |-> data_source_mappings,
          deployment_ready |-> deployment_ready,
          builder_available |-> builder_available,
          status |-> DashboardStatus(deployment_ready, builder_available, config_exists) ]

validate_data_flow ==
    [s \in Range(StageOrder) |->
        CASE s = "stage_1_ingestion" -> validate_data_ingestion
          [] s = "stage_2_processing" -> validate_data_processing
          [] s = "stage_3_database" -> validate_database_creation
          [] s = "stage_4_exports" -> validate_arcgis_exports
          [] s = "stage_5_dashboard" -> validate_dashboard_config]

(***************************************************************************)
(* validate_integration_points: the four checks.  Scores are in hundredths.*)
(***************************************************************************)
\* one satisfied boolean is worth 33.33
PerBoolean == 3333

\* mutant: the third boolean left out of the sum
CheckScore_TwoOfThree(bs) == CountTrue(SubSeq(bs, 1, 2)) * PerBoolean

\* sum([...]) * 33.33
CheckScore(bs) == CountTrue(bs) * PerBoolean

\* pd.read_csv(filepath, nrows=0) succeeds
HeaderReadable(f) == f.kind \in {"csv", "ragged"}

\* the loop over csv_files in check_data_format_consistency
HeadersConsistent ==
    LET cap == csv_files["grid_capacity_arcgis.csv"]
        conn == csv_files["grid_connections_arcgis.csv"]
        cap_ok ==
            IF ~Exists(cap) THEN TRUE
            ELSE IF HeaderReadable(cap) THEN (ExpectedCols \cap cap.columns) # {}
            ELSE FALSE
        conn_ok == ~Exists(conn) \/ HeaderReadable(conn)
    IN  IF conn_ok THEN cap_ok ELSE FALSE

check_data_format_consistency ==
    LET json_structure_valid ==
            analysis_file.kind = "object" /\ RequiredKeys \subseteq analysis_file.keys
        csv_headers_consistent == HeadersConsistent
        database_schema_aligned == db_file.kind = "sqlite" /\ db_file.capacity_mw_column
    IN  [ json_structure_valid |-> json_structure_valid,
          csv_headers_consistent |-> csv_headers_consistent,
          database_schema_aligned |-> database_schema_aligned,
          score |-> Round1(CheckScore(<< json_structure_valid, csv_headers_consistent,
                                         database_schema_aligned >>)) ]

\* SELECT COUNT(*) FROM grid_capacity succeeds
CapacityCountable == db_file.kind = "sqlite" /\ "grid_capacity" \in db_file.tables

check_api_database_flow ==
    LET api_data_extractable == Exists(analysis_file)
        database_insertable == CapacityCountable /\ db_file.rows["grid_capacity"] > 0
        data_transformation_working ==
            CapacityCountable /\ db_file.capacity_mw_column /\ db_file.capacity_nonnull > 0
    IN  [ api_data_extractable |-> api_data_extractable,
          database_insertable |-> database_insertable,
          data_transformation_working |-> data_transformation_working,
          score |-> CheckScore(<< api_data_extractable, database_insertable,
                                  data_transformation_working >>) ]

\* mutant: strictly more than 80% of the rows
DataPreserved_Strict(csv_count, db_count) == csv_count * 10 > db_count * 8

\* csv_count >= (db_count * 0.8)
DataPreserved(csv_count, db_count) == csv_count * 10 >= db_count * 8

check_database_export_flow ==
    LET cap == csv_files["grid_capacity_arcgis.csv"]
        database_readable == Exists(db_file)
        csv_exports_generated == database_readable /\ Exists(cap)
        data_preserved ==
            /\ csv_exports_generated
            /\ CapacityCountable
            /\ cap.kind = "csv"
            /\ DataPreserved(cap.rows, db_file.rows["grid_capacity"])
    IN  [ database_readable |-> database_readable,
          csv_exports_generated |-> csv_exports_generated,
          data_preserved |-> data_preserved,
          score |-> CheckScore(<< database_readable, csv_exports_generated,
                                  data_preserved >>) ]

\* any(w.get('type') == 'bar_chart' for w in widgets): "raise" when a widget
\* that is no dict is met before a bar chart is found
HasChartWidget(widgets) ==
    LET bars == {i \in DOMAIN widgets : widgets[i].is_dict /\ widgets[i].type = "bar_chart"}
        bad == {i \in DOMAIN widgets : ~widgets[i].is_dict}
    IN  IF \E i \in bad : \A j \in bars : i < j THEN "raise"
        ELSE IF bars # {} THEN "yes"
        ELSE "no"

check_export_dashboard_flow ==
    LET csv_count == Cardinality({i \in DOMAIN CsvFiles : Exists(csv_files[CsvFiles[i]])})
        csv_files_available == csv_count >= 2
        loaded == config_file.kind = "object"
        dashboard_config_references_data == loaded /\ config_file.data_sources >= 2
        has_capacity_widget ==
            loaded /\ \E i \in DOMAIN config_file.widgets : config_file.widgets[i].capacity
        widget_data_mappings_correct ==
            loaded /\ has_capacity_widget /\ HasChartWidget(config_file.widgets) = "yes"
    IN  [ csv_files_available |-> csv_files_available,
          dashboard_config_references_data |-> dashboard_config_references_data,
          widget_data_mappings_correct |-> widget_data_mappings_correct,
          score |-> CheckScore(<< csv_files_available, dashboard_config_references_data,
                                  widget_data_mappings_correct >>) ]

validate_integration_points ==
    [c \in Range(CheckOrder) |->
        CASE c = "data_format_consistency" -> check_data_format_consistency
          [] c = "api_to_database_flow" -> check_api_database_flow
          [] c = "database_to_export_flow" -> check_database_export_flow
          [] c = "export_to_dashboard_flow" -> check_export_dashboard_flow]

(***************************************************************************)
(* Scores.  Component scores are in 1/400ths, cohesion_score in tenths.    *)
(***************************************************************************)
RECURSIVE SumSeq(_)
SumSeq(q) == IF q = << >> THEN 0 ELSE Head(q) + SumSeq(Tail(q))

\* the keys of a dict in insertion order
Items(order, d) == SelectSeq(order, LAMBDA k : k \in DOMAIN d)

\* mutant: 'ready' scored like 'complete', as calculate_output_score does
StageScore_ReadyIsFull(status) ==
    IF status \in {"complete", "ready"} THEN 100
    ELSE IF status \in {"configured", "partial"} THEN 80
    ELSE 40

\* the if/elif/else of calculate_data_flow_score
StageScore(status) ==
    IF status = "complete" THEN 100
    ELSE IF status \in {"configured", "ready", "partial"} THEN 80
    ELSE 40

\* calculate_data_flow_score: the list stage_scores
StageScores(flow) ==
    LET stages == Items(StageOrder, flow)
    IN  [i \in 1..Len(stages) |-> StageScore(flow[stages[i]].status)]

\* sum(stage_scores) / len(stage_scores) if stage_scores else 0
calculate_data_flow_score(flow) ==
    LET q == StageScores(flow)
    IN  IF q = << >> THEN 0 ELSE (SumSeq(q) * 400) \div Len(q)

\* sum(scores) / len(scores) if scores else 0, the scores in hundredths
calculate_integration_score(integration) ==
    LET checks == Items(CheckOrder, integration)
        q == [i \in 1..Len(checks) |-> integration[checks[i]].score]
    IN  IF q = << >> THEN 0 ELSE (SumSeq(q) * 4) \div Len(q)

\* dict.get('status') of a stage that may be missing from data_flow
StatusOf(flow, stage) == IF stage \in DOMAIN flow THEN flow[stage].status ELSE "none"

ExportScore(status) == IF status = "complete" THEN 100 ELSE 60

DashboardScore(status) == IF status = "ready" THEN 100 ELSE 80

\* mutant: the sum of the two scores, not their mean
calculate_output_score_Sum(flow) ==
    (ExportScore(StatusOf(flow, "stage_4_exports"))
     + DashboardScore(StatusOf(flow, "stage_5_dashboard"))) * 400

calculate_output_score(flow) ==
    ((ExportScore(StatusOf(flow, "stage_4_exports"))
      + DashboardScore(StatusOf(flow, "stage_5_dashboard"))) * 400) \div 2

\* mutant: the weights of data flow and integration points swapped
Weights_Swapped == [data_flow |-> 3, integration_points |-> 4, output_consistency |-> 3]

\* the weights, in tenths
Weights == [data_flow |-> 4, integration_points |-> 3, output_consistency |-> 3]

\* calculate_cohesion_score: the dict scores
ComponentScores(results) ==
    [ data_flow |-> calculate_data_flow_score(results.data_flow),
      integration_points |-> calculate_integration_score(results.integration_points),
      output_consistency |-> calculate_output_score(results.data_flow) ]

\* sum(scores[aspect] * weights[aspect] for aspect in weights), in 1/4000ths
TotalScore(scores) ==
    scores.data_flow * Weights.data_flow
    + scores.integration_points * Weights.integration_points
    + scores.output_consistency * Weights.output_consistency

\* round(total_score, 1), in tenths
RoundTotal(total) == (total + 200) \div 400

(***************************************************************************)
(* identify_gaps.                                                          *)
(***************************************************************************)
Gap(kind, name, status, score, files) ==
    [kind |-> kind, name |-> name, status |-> status, score |-> score, files |-> files]

\* mutant: the list of the previous call is extended
InitialGaps_Kept(results) == results.gaps_identified

\* gaps = []
InitialGaps(results) == << >>

\* mutant: 'failed' left out of the list
GapStatuses_NoFailed == {"incomplete", "missing"}

\* if status in ['incomplete', 'missing', 'failed']
GapStatuses == {"incomplete", "missing", "failed"}

DataFlowGaps(flow) ==
    LET stages == SelectSeq(Items(StageOrder, flow),
                            LAMBDA s : flow[s].status \in GapStatuses)
    IN  [i \in 1..Len(stages) |->
            Gap("Data Flow Gap", stages[i], flow[stages[i]].status, 0, << >>)]

\* mutant: every check below 100 is a gap
IntegrationGapThreshold_Full == 100 * 100

\* if score < 80, in hundredths
IntegrationGapThreshold == 8000

IntegrationGaps(integration) ==
    LET checks == SelectSeq(Items(CheckOrder, integration),
                            LAMBDA c : integration[c].score < IntegrationGapThreshold)
    IN  [i \in 1..Len(checks) |->
            Gap("Integration Gap", checks[i], "", integration[checks[i]].score, << >>)]

\* mutant: the existence checks run below 80 only
TechnicalGapsChecked_Below80(cohesion_score) == cohesion_score < 800

\* if self.validation_results['cohesion_score'] < 90
TechnicalGapsChecked(cohesion_score) == cohesion_score < 900

TechnicalGaps(cohesion_score) ==
    LET missing_csvs == SelectSeq(CsvFiles, LAMBDA f : ~Exists(csv_files[f]))
    IN  IF TechnicalGapsChecked(cohesion_score)
        THEN (IF ~Exists(db_file)
              THEN << Gap("Database Missing", "", "", 0, << >>) >> ELSE << >>)
             \o (IF missing_csvs # << >>
                 THEN << Gap("Export Files Missing", "", "", 0, missing_csvs) >>
                 ELSE << >>)
        ELSE << >>

identify_gaps(results) ==
    InitialGaps(results)
    \o DataFlowGaps(results.data_flow)
    \o IntegrationGaps(results.integration_points)
    \o TechnicalGaps(results.cohesion_score)

(***************************************************************************)
(* The components at rest: what their variables hold while another         *)
(* component runs.                                                         *)
(***************************************************************************)
PdfFile(name, openable, pages) == [name |-> name, openable |-> openable, pages |-> pages]

NoPdf == PdfFile("", FALSE, << >>)

\* analyze_pdf: the dict `analysis` before the document is opened
InitialAnalysis(name) ==
    [ file_name |-> name, pages_processed |-> 0,
      capacity_info |-> << >>, connection_info |-> << >>,
      constraint_info |-> << >>, investment_info |-> << >> ]

AnalyzerIdle ==
    /\ pdf_file = NoPdf
    /\ page_num = 0
    /\ doc_analysis = InitialAnalysis("")
    /\ analyzer_pc = "idle"

\* NULL in a numeric column, None in Python
Null == -1

\* NULL in a text column
NullText == "NULL"

\* the store file: whether create_tables has run on it, the rows of the five
\* tables in insertion order, the AUTOINCREMENT counter of
\* document_metadata, and the views
StoreOf(tables, capacity, connections, constraints, investments, metadata, seq, views) ==
    [ tables_created |-> tables,
      grid_capacity |-> capacity,
      grid_connections |-> connections,
      grid_constraints |-> constraints,
      investment_projects |-> investments,
      document_metadata |-> metadata,
      metadata_seq |-> seq,
      views_created |-> views ]

\* sqlite3.connect on a path without a file
NewStore == StoreOf(FALSE, << >>, << >>, << >>, << >>, << >>, 0, FALSE)

NoAnalysisData ==
    [ capacity_data |-> << >>, connection_data |-> << >>, constraint_data |-> << >>,
      investment_data |-> << >>, document_summaries |-> << >> ]

LoaderIdle ==
    /\ analysis_data = NoAnalysisData
    /\ store = NewStore
    /\ db_conn = NewStore
    /\ loader_pc = "idle"
    /\ loads = 0
    /\ load_error = "none"
    /\ store_at_connect = NewStore
    /\ committed_loads = 0

NoDocument == [country |-> "", filename |-> "", url |-> ""]

NoResponse == [outcome |-> "none", content_type |-> "", body |-> << >>]

\* download_document's return value None; a path is a non-empty sequence
None == << >>

\* no file under output_dir
NoFiles == << >>

\* before the first call of download_document
NoCall(files) == [doc_info |-> NoDocument, result |-> None, fetched |-> FALSE, files |-> files]

DownloadIdle ==
    /\ local_files = NoFiles
    /\ doc_info = NoDocument
    /\ response = NoResponse
    /\ download_result = None
    /\ requests_sent = 0
    /\ fetched = FALSE
    /\ downloads = 0
    /\ before_call = NoCall(NoFiles)
    /\ harvester_pc = "idle"

DiscoverIdle ==
    /\ country = ""
    /\ url_index = 0
    /\ scanned = << >>
    /\ discovered_docs = << >>
    /\ discover_pc = "idle"

\* no file at the path
MissingFile == [kind |-> "missing", plumber_opens |-> FALSE, pypdf_opens |-> FALSE,
                pages |-> << >>]

ExtractIdle ==
    /\ pdf_path = MissingFile
    /\ extract_page = 0
    /\ extracted = << >>
    /\ extract_result = None
    /\ fallback_tried = FALSE
    /\ extract_pc = "idle"

\* all_results as harvest_all_countries creates it; the scores in hundredths
InitialAllResults ==
    [ countries |-> << >>,
      summary |-> [ countries_processed |-> 0,
                    total_documents_discovered |-> 0,
                    total_documents_downloaded |-> 0,
                    total_documents_analyzed |-> 0,
                    highest_relevance_country |-> "",
                    highest_relevance_score |-> 0 ] ]

NoHarvest == [country |-> ""]

HarvestIdle ==
    /\ country_index = 0
    /\ all_results = InitialAllResults
    /\ harvest_results = NoHarvest
    /\ doc_index = 0
    /\ doc_errors = 0
    /\ harvest_pc = "idle"

HarvesterIdle == DownloadIdle /\ DiscoverIdle /\ ExtractIdle /\ HarvestIdle

UpstreamIdle == AnalyzerIdle /\ LoaderIdle /\ HarvesterIdle

(***************************************************************************)
(* EndToEndValidator.__init__ and run_complete_analysis.                   *)
(***************************************************************************)
\* __init__: self.validation_results; component_scores is set by
\* calculate_cohesion_score
InitialResults ==
    [ data_flow |-> << >>, integration_points |-> << >>, output_consistency |-> << >>,
      gaps_identified |-> << >>, cohesion_score |-> 0, component_scores |-> << >> ]

NoReport == [written |-> FALSE, cohesion_score |-> 0, gaps |-> << >>]
NoRun == [cohesion_score |-> 0, gaps_identified |-> << >>]

StartsWith(f) ==
    /\ cwd_files = f.cwd
    /\ data_dir = f.data_dir
    /\ analysis_file = f.analysis
    /\ report_md = f.report_md
    /\ db_file = f.db
    /\ csv_files = f.csv
    /\ config_file = f.config

CoarseFamily ==
    \E w \in CwdCoarse, a \in AnalysisCoarse, d \in DbCoarse,
       c \in ExportsCoarse, g \in ConfigCoarse :
        StartsWith(Files(w, TRUE, a, a.kind = "object", d, c, g))

NoDataDirFamily ==
    \E w \in CwdCoarse :
        StartsWith(Files(w, FALSE, AbsentAnalysis, FALSE, AbsentDb, NoExports, AbsentConfig))

AnalysisFamily ==
    \E k \in Corners, w \in {{}, Sources}, a \in AnalysisFine, r \in BOOLEAN :
        StartsWith([k EXCEPT !.cwd = w, !.analysis = a, !.report_md = r])

StoreFamily ==
    \E k \in Corners, d \in DbSchemaFine \cup {UnreadableDb, EmptyDb},
       c \in CapacityCsvFine :
        StartsWith([k EXCEPT !.db = d,
                             !.csv = [k.csv EXCEPT !["grid_capacity_arcgis.csv"] = c]])

TablesFamily ==
    \E k \in Corners, d \in DbTablesFine : StartsWith([k EXCEPT !.db = d])

ExportsFamily ==
    \E k \in Corners, c \in ExportsFine : StartsWith([k EXCEPT !.csv = c])

ConfigFamily ==
    \E k \in Corners, w \in {Sources, Sources \cup {Builder}}, g \in ConfigFine :
        StartsWith([k EXCEPT !.cwd = w, !.config = g])

Scenario ==
    \/ CoarseFamily
    \/ NoDataDirFamily
    \/ AnalysisFamily
    \/ StoreFamily
    \/ TablesFamily
    \/ ExportsFamily
    \/ ConfigFamily

Init ==
    /\ UpstreamIdle
    /\ Scenario
    /\ cohesion_report = NoReport
    /\ validation_results = InitialResults
    /\ stage_scores = << >>
    /\ pc = "start"
    /\ run = 1
    /\ first_run = NoRun

\* self.validate_data_flow()
ValidateDataFlow ==
    /\ pc = "start"
    /\ ~DataFlowRaises
    /\ validation_results' = [validation_results EXCEPT !.data_flow = validate_data_flow]
    /\ db_file' = StoreAfterConnect(db_file)
    /\ pc' = "flow_validated"
    /\ UNCHANGED << upstream_vars, read_only_files, cohesion_report, stage_scores, run, first_run >>

\* self.validate_data_flow() when the analysis file does not load: the
\* exception leaves run_complete_analysis
ValidateDataFlowRaises ==
    /\ pc = "start"
    /\ DataFlowRaises
    /\ pc' = "raised"
    /\ UNCHANGED << upstream_vars, artifacts, cohesion_report, validation_results, stage_scores,
                    run, first_run >>

\* self.validate_integration_points()
ValidateIntegrationPoints ==
    /\ pc = "flow_validated"
    /\ validation_results' =
           [validation_results EXCEPT !.integration_points = validate_integration_points]
    /\ db_file' = StoreAfterConnect(db_file)
    /\ pc' = "integration_validated"
    /\ UNCHANGED << upstream_vars, read_only_files, cohesion_report, stage_scores, run, first_run >>

\* self.calculate_cohesion_score()
CalculateCohesionScore ==
    /\ pc = "integration_validated"
    /\ LET scores == ComponentScores(validation_results)
       IN  validation_results' =
               [validation_results EXCEPT
                   !.cohesion_score = RoundTotal(TotalScore(scores)),
                   !.component_scores = scores]
    /\ stage_scores' = StageScores(validation_results.data_flow)
    /\ pc' = "scored"
    /\ UNCHANGED << upstream_vars, artifacts, cohesion_report, run, first_run >>

\* self.identify_gaps()
IdentifyGaps ==
    /\ pc = "scored"
    /\ validation_results' =
           [validation_results EXCEPT !.gaps_identified = identify_gaps(validation_results)]
    /\ pc' = "gaps_identified"
    /\ UNCHANGED << upstream_vars, artifacts, cohesion_report, stage_scores, run, first_run >>

\* generate_cohesion_report and the write of the report file; the report's
\* text is kept as the score and the gaps it renders
SaveReport ==
    /\ pc = "gaps_identified"
    /\ data_dir
    /\ cohesion_report' =
           [ written |-> TRUE,
             cohesion_score |-> validation_results.cohesion_score,
             gaps |-> validation_results.gaps_identified ]
    /\ pc' = "done"
    /\ UNCHANGED << upstream_vars, artifacts, validation_results, stage_scores, run, first_run >>

\* open(report_file, 'w') when data/ does not exist
SaveReportRaises ==
    /\ pc = "gaps_identified"
    /\ ~data_dir
    /\ pc' = "raised"
    /\ UNCHANGED << upstream_vars, artifacts, cohesion_report, validation_results, stage_scores,
                    run, first_run >>

Next ==
    \/ ValidateDataFlow
    \/ ValidateDataFlowRaises
    \/ ValidateIntegrationPoints
    \/ CalculateCohesionScore
    \/ IdentifyGaps
    \/ SaveReport
    \/ SaveReportRaises

Spec == Init /\ [][Next]_vars

\* validator.run_complete_analysis() called again on the same instance
RunAgain ==
    /\ pc = "done"
    /\ run < MaxRuns
    /\ first_run' = [ cohesion_score |-> validation_results.cohesion_score,
                      gaps_identified |-> validation_results.gaps_identified ]
    /\ run' = run + 1
    /\ stage_scores' = << >>
    /\ pc' = "start"
    /\ UNCHANGED << upstream_vars, artifacts, cohesion_report, validation_results >>

\* EndToEndValidator().run_complete_analysis() on a fresh instance
RunFresh ==
    /\ pc = "done"
    /\ run < MaxRuns
    /\ first_run' = [ cohesion_score |-> validation_results.cohesion_score,
                      gaps_identified |-> validation_results.gaps_identified ]
    /\ run' = run + 1
    /\ validation_results' = InitialResults
    /\ stage_scores' = << >>
    /\ pc' = "start"
    /\ UNCHANGED << upstream_vars, artifacts, cohesion_report >>

NextRerun == Next \/ RunAgain \/ RunFresh

SpecRerun == Init /\ [][NextRerun]_vars

(***************************************************************************)
(* Where a run stands.                                                     *)
(***************************************************************************)
\* validate_data_flow has stored its result
FlowValidated == DOMAIN validation_results.data_flow = Range(StageOrder)

\* validate_integration_points has stored its result
IntegrationValidated == DOMAIN validation_results.integration_points = Range(CheckOrder)

\* calculate_cohesion_score has run in this run
Scored ==
    \/ pc \in {"scored", "gaps_identified", "done"}
    \/ pc = "raised" /\ ~DataFlowRaises

\* identify_gaps has run in this run
GapsIdentified ==
    \/ pc \in {"gaps_identified", "done"}
    \/ pc = "raised" /\ ~DataFlowRaises

StatusAt(i) == validation_results.data_flow[StageOrder[i]].status

GapList == validation_results.gaps_identified

GapsOfKind(kind) == {i \in DOMAIN GapList : GapList[i].kind = kind}

(***************************************************************************)
(* C1.  Every stage gets 100 for status 'complete', 80 for 'configured',   *)
(* 'ready' or 'partial', and 40 for any other status; the list of          *)
(* per-stage scores holds one score per stage and no other value.          *)
(***************************************************************************)
C1_StageScoreMapping ==
    Scored =>
        /\ Len(stage_scores) = Len(StageOrder)
        /\ \A i \in DOMAIN stage_scores :
            /\ StatusAt(i) = "complete" => stage_scores[i] = 100
            /\ StatusAt(i) \in {"configured", "ready", "partial"} => stage_scores[i] = 80
            /\ StatusAt(i) \notin {"complete", "configured", "ready", "partial"}
                   => stage_scores[i] = 40
            /\ stage_scores[i] \in {100, 80, 40}

\* a run whose stages carry 'complete', 'ready' and a status of the else
\* branch, each with its score
C1_Witness ==
    /\ Scored
    /\ StatusAt(1) = "complete" /\ stage_scores[1] = 100
    /\ StatusAt(5) = "ready" /\ stage_scores[5] = 80
    /\ StatusAt(3) = "corrupted" /\ stage_scores[3] = 40
    /\ StatusAt(4) = "incomplete" /\ stage_scores[4] = 40

(***************************************************************************)
(* C2.  After run_complete_analysis the recorded cohesion_score is         *)
(* 0.4*DataFlow + 0.3*IntegrationPoints + 0.3*OutputConsistency rounded to *)
(* one decimal, DataFlow the mean of the five per-stage scores and         *)
(* IntegrationPoints the mean of the four check scores.                    *)
(*   As claimed, OutputConsistency is the mean of the per-stage scores of  *)
(* the export stage and the dashboard stage (C2_AsClaimed).                *)
(*   As amended, OutputConsistency is the mean of an export score that is  *)
(* 100 for status 'complete' and 60 otherwise and a dashboard score that   *)
(* is 100 for status 'ready' and 80 otherwise (C2_CohesionScore).          *)
(* The weighted sum is in 1/4000ths; a score s in tenths is its rounding   *)
(* when 400*s is within 200 of it.                                         *)
(***************************************************************************)
C2_DataFlow == (SumSeq(stage_scores) * 400) \div 5

C2_IntegrationPoints ==
    (( validation_results.integration_points["data_format_consistency"].score
     + validation_results.integration_points["api_to_database_flow"].score
     + validation_results.integration_points["database_to_export_flow"].score
     + validation_results.integration_points["export_to_dashboard_flow"].score ) * 4) \div 4

C2_IsRounding(s, total) == 400 * s - total \in (-200)..200

C2_AsClaimed ==
    pc = "done" =>
        LET output == ((stage_scores[4] + stage_scores[5]) * 400) \div 2
        IN  C2_IsRounding(validation_results.cohesion_score,
                          4 * C2_DataFlow + 3 * C2_IntegrationPoints + 3 * output)

C2_CohesionScore ==
    pc = "done" =>
        LET export == IF StatusAt(4) = "complete" THEN 100 ELSE 60
            dashboard == IF StatusAt(5) = "ready" THEN 100 ELSE 80
            output == ((export + dashboard) * 400) \div 2
        IN  C2_IsRounding(validation_results.cohesion_score,
                          4 * C2_DataFlow + 3 * C2_IntegrationPoints + 3 * output)

\* a finished run in which both output scores differ from the per-stage
\* scores: exports 'partial' (80 against 60), dashboard 'ready' (80 against 100)
C2_Witness ==
    /\ pc = "done"
    /\ StatusAt(4) = "partial" /\ stage_scores[4] = 80
    /\ StatusAt(5) = "ready" /\ stage_scores[5] = 80
    /\ validation_results.component_scores.output_consistency = 80 * 400
    /\ validation_results.cohesion_score > 0

(***************************************************************************)
(* C3.  The recorded cohesion score is always within [0, 100].             *)
(***************************************************************************)
C3_ScoreInRange ==
    /\ validation_results.cohesion_score >= 0
    /\ validation_results.cohesion_score <= 1000

\* the run over a complete pipeline's files, which scores highest
C3_Witness ==
    /\ pc = "done"
    /\ \A i \in 1..4 : StatusAt(i) = "complete"
    /\ StatusAt(5) = "ready"
    /\ \A c \in Range(CheckOrder) : validation_results.integration_points[c].score >= 9999
    /\ validation_results.cohesion_score = 984

(***************************************************************************)
(* C4.  Once identify_gaps has run: if the store file is absent the gap    *)
(* list holds the database-missing gap, and if the capacity export file is *)
(* absent it holds the export-files-missing gap naming that file, whatever *)
(* the other files are.                                                    *)
(***************************************************************************)
C4_MissingArtifactsNamed ==
    GapsIdentified =>
        /\ ~Exists(db_file) => GapsOfKind("Database Missing") # {}
        /\ ~Exists(csv_files["grid_capacity_arcgis.csv"]) =>
               \E i \in GapsOfKind("Export Files Missing") :
                   "grid_capacity_arcgis.csv" \in Range(GapList[i].files)

\* the capacity export is the only file absent and the score is above 80
C4_Witness ==
    /\ GapsIdentified
    /\ ~Exists(csv_files["grid_capacity_arcgis.csv"])
    /\ Exists(db_file)
    /\ validation_results.cohesion_score >= 800
    /\ \E i \in GapsOfKind("Export Files Missing") :
           GapList[i].files = << "grid_capacity_arcgis.csv" >>

(***************************************************************************)
(* C5.  The score of each integration check is determined by the number k  *)
(* of its three booleans that hold.                                        *)
(*   As claimed: 0, 33.33, 66.67 and 100 for k = 0, 1, 2, 3 (C5_AsClaimed).*)
(*   As amended: k * 33.33, that is 0, 33.33, 66.66 and 99.99, for         *)
(* api_to_database_flow, database_to_export_flow and                       *)
(* export_to_dashboard_flow, and that product rounded to one decimal, 0,   *)
(* 33.3, 66.7 and 100.0, for data_format_consistency (C5_CheckScores).     *)
(***************************************************************************)
C5_Booleans(c) ==
    LET r == validation_results.integration_points[c]
    IN  CASE c = "data_format_consistency" ->
                 << r.json_structure_valid, r.csv_headers_consistent,
                    r.database_schema_aligned >>
          [] c = "api_to_database_flow" ->
                 << r.api_data_extractable, r.database_insertable,
                    r.data_transformation_working >>
          [] c = "database_to_export_flow" ->
                 << r.database_readable, r.csv_exports_generated, r.data_preserved >>
          [] c = "export_to_dashboard_flow" ->
                 << r.csv_files_available, r.dashboard_config_references_data,
                    r.widget_data_mappings_correct >>

C5_K(c) == Cardinality({i \in 1..3 : C5_Booleans(c)[i]})

C6_BothReadable ==
    /\ db_file.kind = "sqlite"
    /\ "grid_capacity" \in db_file.tables
    /\ csv_files["grid_capacity_arcgis.csv"].kind = "csv"

C6_AtLeast80Percent ==
    csv_files["grid_capacity_arcgis.csv"].rows * 100 >= db_file.rows["grid_capacity"] * 80

C6_Check == validation_results.integration_points["database_to_export_flow"]

C7_StageGaps ==
    GapsIdentified =>
        \A i \in DOMAIN StageOrder :
            StatusAt(i) \in {"incomplete", "missing", "failed"} =>
                Cardinality({g \in GapsOfKind("Data Flow Gap") :
                                /\ GapList[g].name = StageOrder[i]
                                /\ GapList[g].status = StatusAt(i)}) = 1

\* a run with a stage of each of the three statuses
C7_Witness ==
    /\ GapsIdentified
    /\ StatusAt(1) = "incomplete"
    /\ StatusAt(2) = "failed"
    /\ StatusAt(3) = "missing"
    /\ Cardinality(GapsOfKind("Data Flow Gap")) >= 3

(***************************************************************************)
(* C8.  Once identify_gaps has run, every integration check scoring below  *)
(* 80 has an integration gap entry naming the check and its score, and no  *)
(* check scoring 80 or more has an integration gap entry.                  *)
(***************************************************************************)
C8_IntegrationGaps ==
    GapsIdentified =>
        \A c \in Range(CheckOrder) :
            LET score == validation_results.integration_points[c].score
                named == {g \in GapsOfKind("Integration Gap") : GapList[g].name = c}
            IN  /\ score < 8000 =>
                       \E g \in named : GapList[g].score = score
                /\ score >= 8000 => named = {}

\* a run with a check at 99.99 and no gap for it, and a check at 66.66 with one
C8_Witness ==
    /\ GapsIdentified
    /\ validation_results.integration_points["api_to_database_flow"].score = 9999
    /\ validation_results.integration_points["database_to_export_flow"].score = 6666
    /\ \E g \in GapsOfKind("Integration Gap") :
           GapList[g].name = "database_to_export_flow" /\ GapList[g].score = 6666
    /\ \A g \in GapsOfKind("Integration Gap") : GapList[g].name # "api_to_database_flow"

(***************************************************************************)
(* C9.  Every per-stage status reported by validate_data_flow is one of    *)
(* complete, partial, configured, ready, incomplete, missing, failed,      *)
(* whatever the files are, an unreadable store or config file included.    *)
(* The store stage of an existing store file that sqlite3 cannot read      *)
(* carries 'corrupted'.                                                    *)
(***************************************************************************)
C9_AsClaimed ==
    FlowValidated =>
        \A i \in DOMAIN StageOrder :
            StatusAt(i) \in {"complete", "partial", "configured", "ready",
                             "incomplete", "missing", "failed"}

(***************************************************************************)
(* C10.  A second run of run_complete_analysis over the same files, on the *)
(* same validator instance or on a fresh one, ends with the cohesion score *)
(* and the gap list, in the same order, of the run before it.              *)
(***************************************************************************)
C10_Deterministic ==
    (run > 1 /\ pc = "done") =>
        /\ validation_results.cohesion_score = first_run.cohesion_score
        /\ validation_results.gaps_identified = first_run.gaps_identified

\* a second run that has finished with gaps of all three kinds, the report
\* of the first run on disk
C10_Witness ==
    /\ run > 1
    /\ pc = "done"
    /\ cohesion_report.written
    /\ GapsOfKind("Data Flow Gap") # {}
    /\ GapsOfKind("Integration Gap") # {}
    /\ GapsOfKind("Export Files Missing") # {}
    /\ validation_results.gaps_identified = first_run.gaps_identified

(***************************************************************************)
(* C11.  No step of run_complete_analysis creates, modifies or deletes the *)
(* analysis JSON, the store file, an export CSV or the dashboard config    *)
(* (an absent store file stays absent), nor any other file it reads; the   *)
(* only file a step writes is the cohesion report, written by the save at  *)
(* the end of the run.                                                     *)
(***************************************************************************)
C11_ReadOnly ==
    [][ /\ analysis_file' = analysis_file
        /\ db_file' = db_file
        /\ csv_files' = csv_files
        /\ config_file' = config_file
        /\ UNCHANGED << cwd_files, data_dir, report_md >>
        /\ cohesion_report' # cohesion_report => pc = "gaps_identified" /\ pc' = "done"
      ]_vars

\* a finished run over a directory without a store file: the report is
\* written, the store file is still absent
C11_Witness ==
    /\ pc = "done"
    /\ cohesion_report.written
    /\ db_file = AbsentDb
    /\ Exists(analysis_file)
    /\ validation_results.integration_points # << >>

(***************************************************************************)
(* C12.  A stage none of whose expected artifacts is present scores        *)
(* exactly 40: data ingestion without a source module, data processing     *)
(* without the analysis file, database creation without the store file,    *)
(* ArcGIS exports without an export CSV, dashboard configuration without   *)
(* the dashboard config - whatever the other files are.                    *)
(***************************************************************************)
C12_NoSourceModules == cwd_files \cap Sources = {}
C12_NoExports == \A f \in Range(ExpectedFiles) : ~Exists(csv_files[f])

C12_AbsentScores40 ==
    Scored =>
        /\ C12_NoSourceModules => stage_scores[1] = 40
        /\ ~Exists(analysis_file) => stage_scores[2] = 40
        /\ ~Exists(db_file) => stage_scores[3] = 40
        /\ C12_NoExports => stage_scores[4] = 40
        /\ ~Exists(config_file) => stage_scores[5] = 40

\* the dashboard config is the only absent artifact (the builder module is
\* there): the dashboard stage alone scores 40
C12_Witness ==
    /\ Scored
    /\ ~Exists(config_file) /\ Builder \in cwd_files
    /\ StatusAt(5) = "missing" /\ stage_scores[5] = 40
    /\ \A i \in 1..4 : stage_scores[i] = 100

\* nothing is present: every stage scores 40
C12_WitnessNothing ==
    /\ Scored
    /\ C12_NoSourceModules /\ ~Exists(analysis_file) /\ ~Exists(db_file)
    /\ C12_NoExports /\ ~Exists(config_file)
    /\ stage_scores = << 40, 40, 40, 40, 40 >>

(***************************************************************************)
(* C13.  A readable store file holding all five expected tables, fewer     *)
(* than four of them with rows, gets status 'partial' and the stage score  *)
(* 80; the status is 'complete' only if the store holds at least five      *)
(* tables and at least four expected tables have rows.                     *)
(***************************************************************************)
C13_TablesInStore == Cardinality(db_file.tables) + db_file.extra_tables

C13_PopulatedTables ==
    Cardinality({t \in Range(ExpectedTables) \cap db_file.tables : db_file.rows[t] > 0})

C13_AllFiveCreated == db_file.kind = "sqlite" /\ Range(ExpectedTables) \subseteq db_file.tables

C13_PartialStore ==
    Scored =>
        /\ (C13_AllFiveCreated /\ C13_PopulatedTables < 4)
               => StatusAt(3) = "partial" /\ stage_scores[3] = 80
        /\ StatusAt(3) = "complete"
               => /\ db_file.kind = "sqlite"
                  /\ C13_TablesInStore >= 5
                  /\ C13_PopulatedTables >= 4

\* five tables created, three of them populated: 'partial', 80
C13_Witness ==
    /\ Scored
    /\ C13_AllFiveCreated
    /\ C13_PopulatedTables = 3
    /\ StatusAt(3) = "partial"
    /\ stage_scores[3] = 80
    /\ validation_results.data_flow["stage_3_database"].data_integrity = 80

\* five tables created, exactly four of them populated: 'complete'
C13_WitnessComplete ==
    /\ Scored
    /\ C13_AllFiveCreated
    /\ C13_PopulatedTables = 4
    /\ StatusAt(3) = "complete"
    /\ stage_scores[3] = 100

(***************************************************************************)
(* GridDocumentAnalyzer.  A page's text is a sequence of tokens: words,    *)
(* numbers, the full stop "." and the line break "\n".                     *)
(***************************************************************************)
MaxPages == 2

\* __init__: the four keyword lists, a keyword being a sequence of words
capacity_keywords ==
    << << "capacity" >>, << "MW" >>, << "GW" >>, << "transmission", "capacity" >>,
       << "grid", "capacity" >>, << "available", "capacity" >>,
       << "thermal", "capacity" >>, << "power", "transfer" >>,
       << "transfer", "capacity" >> >>

connection_keywords ==
    << << "connection" >>, << "connecting" >>, << "connection", "queue" >>,
       << "application" >>, << "connection", "process" >>, << "grid", "connection" >>,
       << "connection", "agreement" >>, << "connection", "terms" >>,
       << "connection", "point" >> >>

constraint_keywords ==
    << << "constraint" >>, << "congestion" >>, << "bottleneck" >>, << "limitation" >>,
       << "thermal", "limit" >>, << "voltage", "limit" >>, << "stability", "limit" >> >>

investment_keywords ==
    << << "investment" >>, << "development" >>, << "upgrade" >>, << "reinforcement" >>,
       << "expansion" >>, << "new", "line" >>, << "substation" >>, << "transformer" >> >>

\* str.lower() of a token
Lower(w) ==
    CASE w = "Capacity" -> "capacity"
      [] w = "MW" -> "mw"
      [] w = "GW" -> "gw"
      [] w = "MVA" -> "mva"
      [] w = "Connection" -> "connection"
      [] w = "Pori" -> "pori"
      [] OTHER -> w

\* `k in w` for two lower-case tokens: k is a substring of w
Contains(w, k) ==
    \/ w = k
    \/ << w, k >> \in { << "interconnection", "connection" >> }

Whitespace == {"\n"}

\* str.strip(): leading and trailing whitespace removed
RECURSIVE LStrip(_)
LStrip(t) ==
    IF t # << >> /\ Head(t) \in Whitespace THEN LStrip(Tail(t)) ELSE t

RECURSIVE RStrip(_)
RStrip(t) ==
    IF t # << >> /\ t[Len(t)] \in Whitespace THEN RStrip(SubSeq(t, 1, Len(t) - 1)) ELSE t

Strip(t) == RStrip(LStrip(t))

\* the characters of a token as far as a full stop divides them
Pieces(w) == IF w = "1.5" THEN << "1", ".", "5" >> ELSE << w >>

RECURSIVE Flatten(_)
Flatten(t) == IF t = << >> THEN << >> ELSE Pieces(Head(t)) \o Flatten(Tail(t))

\* the pieces between the full stops of a sequence of tokens none of which
\* holds a full stop inside
RECURSIVE SplitAtStops(_)
SplitAtStops(t) ==
    IF \A i \in DOMAIN t : t[i] # "."
    THEN << t >>
    ELSE LET i == CHOOSE j \in DOMAIN t : t[j] = "." /\ \A h \in 1..(j - 1) : t[h] # "."
         IN  << SubSeq(t, 1, i - 1) >> \o SplitAtStops(SubSeq(t, i + 1, Len(t)))

\* text.split('.'): the pieces between the full stops, empty ones included
Split(t) == SplitAtStops(Flatten(t))

\* keyword.lower() in sentence.lower()
KeywordIn(keyword, sentence) ==
    \E i \in 1..(Len(sentence) - Len(keyword) + 1) :
        \A j \in DOMAIN keyword :
            Contains(Lower(sentence[i + j - 1]), Lower(keyword[j]))

\* any(keyword.lower() in sentence.lower() for keyword in keywords)
HasKeyword(sentence, keywords) ==
    \E n \in DOMAIN keywords : KeywordIn(keywords[n], sentence)

\* the tokens matched by \d+(?:,\d{3})*(?:\.\d+)?
NumberTokens == {"1", "5", "100", "1,500", "1.5", "2030"}

\* the token after position i, whitespace skipped (\s*), "" if there is none
TokenAfter(t, i) ==
    LET rest == LStrip(SubSeq(t, i + 1, Len(t)))
    IN  IF rest = << >> THEN "" ELSE Head(rest)

\* re.findall(r'(<number>)\s*(<units>)', sentence, re.IGNORECASE): the
\* (number, unit) pairs in the order they stand in the sentence
FindPairs(t, units) ==
    LET positions == [i \in DOMAIN t |-> i]
        found == SelectSeq(positions,
                           LAMBDA i : t[i] \in NumberTokens
                                      /\ Lower(TokenAfter(t, i)) \in units)
    IN  [n \in DOMAIN found |-> << t[found[n]], TokenAfter(t, found[n]) >>]

CapacityUnits == {"mw", "gw", "mva"}
CostUnits == {"million", "billion", "m€", "b€"}

\* re.findall(r'20\d{2}', sentence)
FindYears(t) == SelectSeq(t, LAMBDA w : w \in {"2030"})

\* the sentence-like units of a page: text.split('.'), each piece stripped
Sentences(text) ==
    LET parts == Split(text) IN [i \in DOMAIN parts |-> Strip(parts[i])]

\* `if numbers:` of extract_capacity_info
\* mutant: a capacity sentence is kept whether or not it holds a value
NumbersFound_Always(numbers) == TRUE

NumbersFound(numbers) == numbers # << >>

extract_capacity_info(text, page) ==
    LET kept == SelectSeq(Sentences(text),
                          LAMBDA st : /\ HasKeyword(st, capacity_keywords)
                                      /\ NumbersFound(FindPairs(st, CapacityUnits)))
    IN  [i \in DOMAIN kept |->
            [ page |-> page, text |-> kept[i],
              values |-> FindPairs(kept[i], CapacityUnits), type |-> "capacity" ]]

extract_connection_info(text, page) ==
    LET kept == SelectSeq(Sentences(text), LAMBDA st : HasKeyword(st, connection_keywords))
    IN  [i \in DOMAIN kept |-> [page |-> page, text |-> kept[i], type |-> "connection"]]

extract_constraint_info(text, page) ==
    LET kept == SelectSeq(Sentences(text), LAMBDA st : HasKeyword(st, constraint_keywords))
    IN  [i \in DOMAIN kept |-> [page |-> page, text |-> kept[i], type |-> "constraint"]]

extract_investment_info(text, page) ==
    LET kept == SelectSeq(Sentences(text), LAMBDA st : HasKeyword(st, investment_keywords))
    IN  [i \in DOMAIN kept |->
            [ page |-> page, text |-> kept[i], years |-> FindYears(kept[i]),
              costs |-> FindPairs(kept[i], CostUnits), type |-> "investment" ]]

(***************************************************************************)
(* The documents analyze_pdf is given.  A page is what page.extract_text() *)
(* does on it: it returns text, returns None, or raises.                   *)
(***************************************************************************)
Page(kind, text) == [kind |-> kind, text |-> text]

NoTextPage == Page("none", << >>)
FailingPage == Page("error", << >>)

\* sentences matching none, one, several and all of the vocabularies, with
\* and without a number and a unit
SampleSentences ==
    { << "grid" >>,
      << "capacity" >>,
      << "Capacity", "100", "MW" >>,
      << "100", "MVA" >>,
      << "interconnection" >>,
      << "capacity", "connection" >>,
      << "1,500", "mw", "Connection", "congestion", "upgrade" >>,
      << "upgrade", "2030", "5", "million" >> }

\* one sentence; a decimal number, whose full stop divides its sentence; the
\* empty text; two sentences on two lines
SampleTexts ==
    SampleSentences
    \cup { << "capacity", "1.5", "GW" >>, << >> }
    \cup { a \o << ".", "\n" >> \o b : a, b \in SampleSentences }

FirstPages == { Page("text", t) : t \in SampleTexts } \cup {NoTextPage, FailingPage}
LaterPages == { Page("text", t) : t \in SampleSentences } \cup {NoTextPage, FailingPage}

\* the sequences of 0..n pages
RECURSIVE PageLists(_)
PageLists(n) ==
    IF n = 0 THEN { << >> }
    ELSE LET shorter == PageLists(n - 1)
         IN  shorter \cup { << p >> : p \in FirstPages }
                     \cup { q \o << p >> : q \in shorter \ { << >> }, p \in LaterPages }

PdfFiles ==
    { PdfFile("Fingrid.pdf", TRUE, q) : q \in PageLists(MaxPages) }
    \cup { PdfFile("Fingrid.pdf", FALSE, << >>) }

\* the validator at rest
ValidatorIdle ==
    /\ StartsWith(NothingThere)
    /\ cohesion_report = NoReport
    /\ validation_results = InitialResults
    /\ stage_scores = << >>
    /\ pc = "idle"
    /\ run = 1
    /\ first_run = NoRun

(***************************************************************************)
(* analyze_pdf.                                                            *)
(***************************************************************************)
AnalyzerInit ==
    /\ pdf_file \in PdfFiles
    /\ page_num = 0
    /\ doc_analysis = InitialAnalysis(pdf_file.name)
    /\ analyzer_pc = "open"

\* pdfplumber.open(pdf_path) and analysis['pages_processed'] = len(pdf.pages)
OpenPdf ==
    /\ analyzer_pc = "open"
    /\ pdf_file.openable
    /\ doc_analysis' = [doc_analysis EXCEPT !.pages_processed = Len(pdf_file.pages)]
    /\ analyzer_pc' = "pages"
    /\ UNCHANGED << pdf_file, page_num, validator_vars, loader_vars, harvester_vars >>

\* pdfplumber.open raises: the outer except logs it, analysis is returned
OpenPdfFails ==
    /\ analyzer_pc = "open"
    /\ ~pdf_file.openable
    /\ analyzer_pc' = "done"
    /\ UNCHANGED << pdf_file, page_num, doc_analysis, validator_vars, loader_vars, harvester_vars >>

\* one turn of the loop over pdf.pages, the page giving text
AnalyzePage ==
    /\ analyzer_pc = "pages"
    /\ page_num < Len(pdf_file.pages)
    /\ LET page == pdf_file.pages[page_num + 1]
       IN  /\ page.kind = "text" /\ page.text # << >>
           /\ doc_analysis' =
                 [doc_analysis EXCEPT
                     !.capacity_info = @ \o extract_capacity_info(page.text, page_num),
                     !.connection_info = @ \o extract_connection_info(page.text, page_num),
                     !.constraint_info = @ \o extract_constraint_info(page.text, page_num),
                     !.investment_info = @ \o extract_investment_info(page.text, page_num)]
    /\ page_num' = page_num + 1
    /\ UNCHANGED << pdf_file, analyzer_pc, validator_vars, loader_vars, harvester_vars >>

\* `if not text: continue`, for None and for the empty string
SkipPage ==
    /\ analyzer_pc = "pages"
    /\ page_num < Len(pdf_file.pages)
    /\ LET page == pdf_file.pages[page_num + 1]
       IN  page.kind = "none" \/ (page.kind = "text" /\ page.text = << >>)
    /\ page_num' = page_num + 1
    /\ UNCHANGED << pdf_file, doc_analysis, analyzer_pc, validator_vars, loader_vars, harvester_vars >>

\* page.extract_text() raises: the inner except logs it and continues
PageFails ==
    /\ analyzer_pc = "pages"
    /\ page_num < Len(pdf_file.pages)
    /\ pdf_file.pages[page_num + 1].kind = "error"
    /\ page_num' = page_num + 1
    /\ UNCHANGED << pdf_file, doc_analysis, analyzer_pc, validator_vars, loader_vars, harvester_vars >>

\* the loop is over: return analysis
ReturnAnalysis ==
    /\ analyzer_pc = "pages"
    /\ page_num = Len(pdf_file.pages)
    /\ analyzer_pc' = "done"
    /\ UNCHANGED << pdf_file, page_num, doc_analysis, validator_vars, loader_vars, harvester_vars >>

InitAnalyzer == AnalyzerInit /\ ValidatorIdle /\ LoaderIdle /\ HarvesterIdle

NextAnalyzer ==
    \/ OpenPdf
    \/ OpenPdfFails
    \/ AnalyzePage
    \/ SkipPage
    \/ PageFails
    \/ ReturnAnalysis

SpecAnalyzer == InitAnalyzer /\ [][NextAnalyzer]_vars

(***************************************************************************)
(* What analyze_pdf has returned.                                          *)
(***************************************************************************)
Analyzed == analyzer_pc = "done" /\ pdf_file.openable

\* the pages that gave text, by their index in pdf.pages
TextPages == {n \in 0..(Len(pdf_file.pages) - 1) : pdf_file.pages[n + 1].kind = "text"}

\* the sentence-like units of page n
UnitsOf(n) == Sentences(pdf_file.pages[n + 1].text)

\* the records of a list that carry page n
RecordsOf(info, n) == SelectSeq(info, LAMBDA r : r.page = n)

Count(q, Test(_)) == Cardinality({i \in DOMAIN q : Test(q[i])})

(***************************************************************************)
(* C14.  Once analyze_pdf has returned, every page that gave text has, in  *)
(* sentence order, exactly one capacity record per sentence-like unit      *)
(* holding a capacity keyword - units without a number and unit included - *)
(* and a record carries values if and only if a number with a unit of MW,  *)
(* GW or MVA stands in its sentence.  extract_capacity_info appends a      *)
(* record only `if numbers:`, so a unit without such a pair has no record. *)
(***************************************************************************)
C14_AsClaimed ==
    Analyzed =>
        \A n \in TextPages :
            LET units == SelectSeq(UnitsOf(n), LAMBDA st : HasKeyword(st, capacity_keywords))
                records == RecordsOf(doc_analysis.capacity_info, n)
            IN  /\ Len(records) = Len(units)
                /\ \A i \in DOMAIN records \cap DOMAIN units :
                       /\ records[i].text = units[i]
                       /\ records[i].values # << >>
                              <=> FindPairs(units[i], CapacityUnits) # << >>

(***************************************************************************)
(* C15.  Once analyze_pdf has returned, for every sentence-like unit of a  *)
(* page that gave text and for each of the four vocabularies, the list of  *)
(* that vocabulary holds one record with the unit's page index and text    *)
(* per occurrence of the unit if the unit holds a keyword of the           *)
(* vocabulary, and none otherwise: n matched vocabularies give n records.  *)
(* A unit matching the capacity vocabulary without a number and unit gets  *)
(* no capacity record, so it has fewer records than matched vocabularies.  *)
(***************************************************************************)
C15_Vocabularies ==
    << [keywords |-> capacity_keywords, type |-> "capacity"],
       [keywords |-> connection_keywords, type |-> "connection"],
       [keywords |-> constraint_keywords, type |-> "constraint"],
       [keywords |-> investment_keywords, type |-> "investment"] >>

C15_Records(type) ==
    CASE type = "capacity" -> doc_analysis.capacity_info
      [] type = "connection" -> doc_analysis.connection_info
      [] type = "constraint" -> doc_analysis.constraint_info
      [] type = "investment" -> doc_analysis.investment_info

C15_AsClaimed ==
    Analyzed =>
        \A n \in TextPages :
            \A u \in DOMAIN UnitsOf(n) :
                \A v \in DOMAIN C15_Vocabularies :
                    LET st == UnitsOf(n)[u]
                        voc == C15_Vocabularies[v]
                        occurrences == Count(UnitsOf(n), LAMBDA x : x = st)
                        records ==
                            Count(C15_Records(voc.type),
                                  LAMBDA r : r.page = n /\ r.text = st /\ r.type = voc.type)
                    IN  records = IF HasKeyword(st, voc.keywords) THEN occurrences ELSE 0

(***************************************************************************)
(* GridIntelligenceDatabase.  Numbers are kept in thousandths: 1500 is     *)
(* 1.5.  A record of the analysis JSON is a function from its keys, and a  *)
(* text is the sequence of tokens of the analyzer.                         *)
(***************************************************************************)
MaxRecords == 2
MaxLoads == 2

\* float(value.replace(',', '')), in thousandths
ToFloat(value) ==
    CASE value = "1" -> 1000
      [] value = "5" -> 5000
      [] value = "100" -> 100000
      [] value = "1,500" -> 1500000
      [] value = "1.5" -> 1500
      [] value = "2030" -> 2030000

\* mutant: the unit compared as it is written
Upper_AsWritten(unit) == unit

\* str.upper() of a unit
Upper(unit) ==
    CASE unit \in {"mw", "MW"} -> "MW"
      [] unit \in {"gw", "GW"} -> "GW"
      [] unit \in {"mva", "MVA"} -> "MVA"
      [] unit \in {"kv", "kV"} -> "KV"
      [] OTHER -> unit

\* the factor 0.95 of insert_capacity_data, in hundredths
MvaFactor == 95

\* the if/elif chain on unit.upper(): << capacity_mw, capacity_unit >>
NormalizeUnit(x, unit) ==
    IF Upper(unit) = "GW" THEN << x * 1000, "MW" >>
    ELSE IF Upper(unit) = "MW" THEN << x, "MW" >>
    ELSE IF Upper(unit) = "MVA" THEN << (x * MvaFactor) \div 100, "MW" >>
    ELSE << Null, NullText >>

\* `'values' in item and item['values']`, then the first pair only
CapacityOf(item) ==
    IF "values" \in DOMAIN item /\ item.values # << >>
    THEN NormalizeUnit(ToFloat(item.values[1][1]), item.values[1][2])
    ELSE << Null, NullText >>

\* `word.lower() in text.lower()` for a one-word pattern
HasWord(text, word) == \E i \in DOMAIN text : Contains(Lower(text[i]), word)

\* extract_project_name: the first indicator found in the text, then two
\* words before and after the first word holding it
project_indicators == << "line", "connection", "link", "project", "development" >>

extract_project_name(text) ==
    LET found == {n \in DOMAIN project_indicators : HasWord(text, project_indicators[n])}
    IN  IF found = {} THEN << >>
        ELSE LET n == CHOOSE m \in found : \A h \in found : m <= h
                 words == SelectSeq(text, LAMBDA w : w \notin Whitespace)
                 i == CHOOSE j \in DOMAIN words :
                          /\ Contains(Lower(words[j]), project_indicators[n])
                          /\ \A h \in 1..(j - 1) :
                                 ~Contains(Lower(words[h]), project_indicators[n])
             IN  SubSeq(words, IF i > 2 THEN i - 2 ELSE 1, IF i + 2 < Len(words) THEN i + 2 ELSE Len(words))

\* extract_location: the first listed location found in the text
locations ==
    << "finland", "sweden", "norway", "denmark", "estonia", "pori", "helsinki",
       "tampere", "oulu", "turku", "northern finland", "southern finland",
       "western finland" >>

extract_location(text) ==
    LET found == {n \in DOMAIN locations : HasWord(text, locations[n])}
    IN  IF found = {} THEN NullText
        ELSE locations[CHOOSE m \in found : \A h \in found : m <= h]

classify_connection_type(text) ==
    IF HasWord(text, "cross-border") \/ HasWord(text, "international")
    THEN "International Connection"
    ELSE IF HasWord(text, "transmission") THEN "Transmission Connection"
    ELSE IF HasWord(text, "regional") THEN "Regional Connection"
    ELSE IF HasWord(text, "distribution") THEN "Distribution Connection"
    ELSE "General Connection"

classify_constraint_type(text) ==
    IF HasWord(text, "thermal") THEN "Thermal Constraint"
    ELSE IF HasWord(text, "voltage") THEN "Voltage Constraint"
    ELSE IF HasWord(text, "congestion") THEN "Congestion"
    ELSE IF HasWord(text, "bottleneck") THEN "Bottleneck"
    ELSE "General Constraint"

\* item.get(key, default)
GetOr(item, key, default) == IF key \in DOMAIN item THEN item[key] ELSE default

\* the row insert_capacity_data inserts for an item; the texts here are
\* shorter than the 500 characters text[:500] keeps
CapacityRow(item) ==
    [ document_source |-> GetOr(item, "document_source", "Unknown"),
      page_number |-> GetOr(item, "page", 0),
      capacity_mw |-> CapacityOf(item)[1],
      capacity_unit |-> CapacityOf(item)[2],
      description |-> item.text,
      project_name |-> extract_project_name(item.text),
      location |-> extract_location(item.text) ]

ConnectionRow(item) ==
    [ document_source |-> GetOr(item, "document_source", "Unknown"),
      page_number |-> GetOr(item, "page", 0),
      connection_type |-> classify_connection_type(item.text),
      description |-> item.text ]

ConstraintRow(item) ==
    [ document_source |-> GetOr(item, "document_source", "Unknown"),
      page_number |-> GetOr(item, "page", 0),
      constraint_type |-> classify_constraint_type(item.text),
      description |-> item.text ]

\* timeline is '-'.join(item['years']), kept as the years joined; the empty
\* sequence is NULL
InvestmentRow(item) ==
    LET costly == "costs" \in DOMAIN item /\ item.costs # << >>
    IN  [ document_source |-> GetOr(item, "document_source", "Unknown"),
          page_number |-> GetOr(item, "page", 0),
          description |-> item.text,
          investment_amount |-> IF costly THEN ToFloat(item.costs[1][1]) ELSE Null,
          currency |-> IF costly THEN item.costs[1][2] ELSE NullText,
          timeline |-> GetOr(item, "years", << >>) ]

\* item['text'] raises KeyError on a record without the key
Malformed(item) == "text" \notin DOMAIN item

\* the records an insert loop gets through: all of them, or those in front
\* of the first one on which it raises
Loaded(items) ==
    IF \A i \in DOMAIN items : ~Malformed(items[i]) THEN items
    ELSE LET i == CHOOSE j \in DOMAIN items :
                      Malformed(items[j]) /\ \A h \in 1..(j - 1) : ~Malformed(items[h])
         IN  SubSeq(items, 1, i - 1)

\* whether an insert loop raises on its list
Raises(items) == \E i \in DOMAIN items : Malformed(items[i])

\* INSERT OR REPLACE INTO document_metadata: filename is UNIQUE, so a row of
\* that filename is deleted first; id is the next AUTOINCREMENT value
MetadataRow(id, filename, doc_data) ==
    [ id |-> id,
      filename |-> filename,
      pages_processed |-> GetOr(doc_data, "pages_processed", 0),
      capacity_points |-> Len(GetOr(doc_data, "capacity_info", << >>)),
      connection_points |-> Len(GetOr(doc_data, "connection_info", << >>)),
      constraint_points |-> Len(GetOr(doc_data, "constraint_info", << >>)),
      investment_points |-> Len(GetOr(doc_data, "investment_info", << >>)) ]

\* mutant: a plain INSERT on a column that is not UNIQUE
InsertOrReplace_Insert(db, filename, doc_data) ==
    [db EXCEPT
        !.metadata_seq = @ + 1,
        !.document_metadata =
            @ \o << MetadataRow(db.metadata_seq + 1, filename, doc_data) >>]

InsertOrReplace(db, filename, doc_data) ==
    [db EXCEPT
        !.metadata_seq = @ + 1,
        !.document_metadata =
            SelectSeq(@, LAMBDA row : row.filename # filename)
            \o << MetadataRow(db.metadata_seq + 1, filename, doc_data) >>]

\* insert_document_metadata: the loop over document_summaries.items(), a
\* sequence of << filename, doc_data >> in dict order
RECURSIVE InsertSummaries(_, _)
InsertSummaries(db, summaries) ==
    IF summaries = << >> THEN db
    ELSE InsertSummaries(InsertOrReplace(db, Head(summaries)[1], Head(summaries)[2]),
                         Tail(summaries))

(***************************************************************************)
(* The analysis JSON create_database is given.                             *)
(***************************************************************************)
CapacityItem(values) ==
    [page |-> 0, text |-> << "Capacity", "connection", "Pori" >>, values |-> values,
     type |-> "capacity"]

\* capacity records: without the key 'values', with no pair, with a pair in
\* each unit, with a pair in a unit the loader does not know in front, and
\* one without its text
CapacityItems ==
    { [page |-> 1, text |-> << "capacity" >>, type |-> "capacity"],
      CapacityItem(<< >>),
      CapacityItem(<< << "100", "MW" >> >>),
      CapacityItem(<< << "1.5", "GW" >> >>),
      CapacityItem(<< << "100", "mva" >> >>),
      CapacityItem(<< << "1,500", "mw" >>, << "5", "GW" >> >>),
      CapacityItem(<< << "5", "kV" >>, << "100", "MW" >> >>),
      [page |-> 0, values |-> << << "100", "MW" >> >>, type |-> "capacity"] }

\* the sequences of at most n members of S
RECURSIVE ListsUpTo(_, _)
ListsUpTo(S, n) ==
    IF n = 0 THEN { << >> }
    ELSE LET shorter == ListsUpTo(S, n - 1)
         IN  shorter \cup { q \o << x >> : q \in shorter, x \in S }

ConnectionItem == [page |-> 0, text |-> << "transmission", "connection" >>, type |-> "connection"]
ConstraintItem == [page |-> 0, text |-> << "congestion" >>, type |-> "constraint"]
InvestmentItem ==
    [ page |-> 1, text |-> << "upgrade", "2030", "5", "million" >>,
      years |-> << "2030" >>, costs |-> << << "5", "million" >> >>, type |-> "investment" ]

\* a record without its text
WithoutText(item) == [k \in DOMAIN item \ {"text"} |-> item[k]]

\* the three other lists: empty, one record each, and one record each of
\* which one lacks its text
OtherData ==
    { [connection_data |-> << >>, constraint_data |-> << >>, investment_data |-> << >>],
      [connection_data |-> << ConnectionItem >>, constraint_data |-> << ConstraintItem >>,
       investment_data |-> << InvestmentItem >>],
      [connection_data |-> << ConnectionItem, WithoutText(ConnectionItem) >>,
       constraint_data |-> << ConstraintItem >>, investment_data |-> << InvestmentItem >>],
      [connection_data |-> << ConnectionItem >>,
       constraint_data |-> << WithoutText(ConstraintItem) >>,
       investment_data |-> << InvestmentItem >>],
      [connection_data |-> << ConnectionItem >>, constraint_data |-> << ConstraintItem >>,
       investment_data |-> << WithoutText(InvestmentItem), InvestmentItem >>] }

\* document_summaries: << filename, analysis >> per document
Summary(name, capacity) ==
    << name, [InitialAnalysis(name) EXCEPT !.pages_processed = 2, !.capacity_info = capacity] >>

DocumentSummaries ==
    { << >>,
      << Summary("Fingrid_a.pdf", << CapacityItem(<< << "100", "MW" >> >>) >>) >>,
      << Summary("Fingrid_a.pdf", << CapacityItem(<< << "100", "MW" >> >>) >>),
         Summary("Fingrid_b.pdf", << >>) >> }

AnalysisData ==
    { [ capacity_data |-> c,
        connection_data |-> o.connection_data,
        constraint_data |-> o.constraint_data,
        investment_data |-> o.investment_data,
        document_summaries |-> d ] :
        c \in ListsUpTo(CapacityItems, MaxRecords), o \in OtherData, d \in DocumentSummaries }

(***************************************************************************)
(* create_database.  The CREATE TABLE statements run outside a             *)
(* transaction and are committed at once; the first INSERT opens the       *)
(* transaction that conn.commit() ends, CREATE VIEW included.              *)
(***************************************************************************)
not_loader_vars == << validator_vars, analyzer_vars, harvester_vars >>

LoaderInit ==
    /\ analysis_data \in AnalysisData
    /\ store = NewStore
    /\ db_conn = NewStore
    /\ loader_pc = "connect"
    /\ loads = 0
    /\ load_error = "none"
    /\ store_at_connect = NewStore
    /\ committed_loads = 0

\* conn = sqlite3.connect(self.db_path)
Connect ==
    /\ loader_pc = "connect"
    /\ db_conn' = store
    /\ store_at_connect' = store
    /\ loads' = loads + 1
    /\ load_error' = "none"
    /\ loader_pc' = "create_tables"
    /\ UNCHANGED << analysis_data, store, committed_loads, not_loader_vars >>

\* self.create_tables(conn): CREATE TABLE IF NOT EXISTS, five times
CreateTables ==
    /\ loader_pc = "create_tables"
    /\ store' = [store EXCEPT !.tables_created = TRUE]
    /\ db_conn' = [db_conn EXCEPT !.tables_created = TRUE]
    /\ loader_pc' = "insert_capacity"
    /\ UNCHANGED << analysis_data, loads, load_error, store_at_connect, committed_loads,
                    not_loader_vars >>

\* the rows an insert loop leaves in the open transaction
Inserted(items, Row(_)) ==
    LET loaded == Loaded(items) IN [i \in DOMAIN loaded |-> Row(loaded[i])]

\* self.insert_capacity_data(conn)
InsertCapacityData ==
    /\ loader_pc = "insert_capacity"
    /\ ~Raises(analysis_data.capacity_data)
    /\ db_conn' = [db_conn EXCEPT !.grid_capacity = @ \o Inserted(analysis_data.capacity_data, CapacityRow)]
    /\ loader_pc' = "insert_connection"
    /\ UNCHANGED << analysis_data, store, loads, load_error, store_at_connect,
                    committed_loads, not_loader_vars >>

\* self.insert_capacity_data(conn) on a list holding a record without 'text': the
\* KeyError leaves the loop, the rows inserted before it stay in the
\* transaction
InsertCapacityDataRaises ==
    /\ loader_pc = "insert_capacity"
    /\ Raises(analysis_data.capacity_data)
    /\ db_conn' = [db_conn EXCEPT !.grid_capacity = @ \o Inserted(analysis_data.capacity_data, CapacityRow)]
    /\ load_error' = "KeyError"
    /\ loader_pc' = "raising"
    /\ UNCHANGED << analysis_data, store, loads, store_at_connect, committed_loads,
                    not_loader_vars >>

\* self.insert_connection_data(conn)
InsertConnectionData ==
    /\ loader_pc = "insert_connection"
    /\ ~Raises(analysis_data.connection_data)
    /\ db_conn' = [db_conn EXCEPT !.grid_connections = @ \o Inserted(analysis_data.connection_data, ConnectionRow)]
    /\ loader_pc' = "insert_constraint"
    /\ UNCHANGED << analysis_data, store, loads, load_error, store_at_connect,
                    committed_loads, not_loader_vars >>

\* self.insert_connection_data(conn) on a list holding a record without 'text': the
\* KeyError leaves the loop, the rows inserted before it stay in the
\* transaction
InsertConnectionDataRaises ==
    /\ loader_pc = "insert_connection"
    /\ Raises(analysis_data.connection_data)
    /\ db_conn' = [db_conn EXCEPT !.grid_connections = @ \o Inserted(analysis_data.connection_data, ConnectionRow)]
    /\ load_error' = "KeyError"
    /\ loader_pc' = "raising"
    /\ UNCHANGED << analysis_data, store, loads, store_at_connect, committed_loads,
                    not_loader_vars >>

\* self.insert_constraint_data(conn)
InsertConstraintData ==
    /\ loader_pc = "insert_constraint"
    /\ ~Raises(analysis_data.constraint_data)
    /\ db_conn' = [db_conn EXCEPT !.grid_constraints = @ \o Inserted(analysis_data.constraint_data, ConstraintRow)]
    /\ loader_pc' = "insert_investment"
    /\ UNCHANGED << analysis_data, store, loads, load_error, store_at_connect,
                    committed_loads, not_loader_vars >>

\* self.insert_constraint_data(conn) on a list holding a record without 'text': the
\* KeyError leaves the loop, the rows inserted before it stay in the
\* transaction
InsertConstraintDataRaises ==
    /\ loader_pc = "insert_constraint"
    /\ Raises(analysis_data.constraint_data)
    /\ db_conn' = [db_conn EXCEPT !.grid_constraints = @ \o Inserted(analysis_data.constraint_data, ConstraintRow)]
    /\ load_error' = "KeyError"
    /\ loader_pc' = "raising"
    /\ UNCHANGED << analysis_data, store, loads, store_at_connect, committed_loads,
                    not_loader_vars >>

\* self.insert_investment_data(conn)
InsertInvestmentData ==
    /\ loader_pc = "insert_investment"
    /\ ~Raises(analysis_data.investment_data)
    /\ db_conn' = [db_conn EXCEPT !.investment_projects = @ \o Inserted(analysis_data.investment_data, InvestmentRow)]
    /\ loader_pc' = "insert_metadata"
    /\ UNCHANGED << analysis_data, store, loads, load_error, store_at_connect,
                    committed_loads, not_loader_vars >>

\* self.insert_investment_data(conn) on a list holding a record without 'text': the
\* KeyError leaves the loop, the rows inserted before it stay in the
\* transaction
InsertInvestmentDataRaises ==
    /\ loader_pc = "insert_investment"
    /\ Raises(analysis_data.investment_data)
    /\ db_conn' = [db_conn EXCEPT !.investment_projects = @ \o Inserted(analysis_data.investment_data, InvestmentRow)]
    /\ load_error' = "KeyError"
    /\ loader_pc' = "raising"
    /\ UNCHANGED << analysis_data, store, loads, store_at_connect, committed_loads,
                    not_loader_vars >>

\* self.insert_document_metadata(conn)
InsertDocumentMetadata ==
    /\ loader_pc = "insert_metadata"
    /\ db_conn' = InsertSummaries(db_conn, analysis_data.document_summaries)
    /\ loader_pc' = "create_views"
    /\ UNCHANGED << analysis_data, store, loads, load_error, store_at_connect,
                    committed_loads, not_loader_vars >>

\* self.create_views(conn): CREATE VIEW IF NOT EXISTS, three times
CreateViews ==
    /\ loader_pc = "create_views"
    /\ db_conn' = [db_conn EXCEPT !.views_created = TRUE]
    /\ loader_pc' = "commit"
    /\ UNCHANGED << analysis_data, store, loads, load_error, store_at_connect,
                    committed_loads, not_loader_vars >>

\* self.create_views(conn) when conn.execute raises a sqlite3.Error
CreateViewsRaises ==
    /\ loader_pc = "create_views"
    /\ load_error' = "sqlite3.Error"
    /\ loader_pc' = "raising"
    /\ UNCHANGED << analysis_data, store, db_conn, loads, store_at_connect,
                    committed_loads, not_loader_vars >>

\* conn.commit()
Commit ==
    /\ loader_pc = "commit"
    /\ store' = db_conn
    /\ committed_loads' = committed_loads + 1
    /\ loader_pc' = "close"
    /\ UNCHANGED << analysis_data, db_conn, loads, load_error, store_at_connect,
                    not_loader_vars >>

\* mutant: closing the connection commits the open transaction
Closed_Commits(seen, committed) == seen

\* conn.close() with a transaction open: what the connection has seen since
\* the last commit is discarded
Closed(seen, committed) == committed

\* finally: conn.close(), after the commit
Close ==
    /\ loader_pc = "close"
    /\ loader_pc' = "done"
    /\ UNCHANGED << analysis_data, store, db_conn, loads, load_error, store_at_connect,
                    committed_loads, not_loader_vars >>

\* finally: conn.close(), on the way out of an exception
CloseRaising ==
    /\ loader_pc = "raising"
    /\ store' = Closed(db_conn, store)
    /\ db_conn' = Closed(db_conn, store)
    /\ loader_pc' = "raised"
    /\ UNCHANGED << analysis_data, loads, load_error, store_at_connect, committed_loads,
                    not_loader_vars >>

\* create_database called again over the same analysis JSON
CreateDatabaseAgain ==
    /\ loader_pc \in {"done", "raised"}
    /\ loads < MaxLoads
    /\ loader_pc' = "connect"
    /\ UNCHANGED << analysis_data, store, db_conn, loads, load_error, store_at_connect,
                    committed_loads, not_loader_vars >>

InitLoader == LoaderInit /\ ValidatorIdle /\ AnalyzerIdle /\ HarvesterIdle

NextLoader ==
    \/ Connect
    \/ CreateTables
    \/ InsertCapacityData
    \/ InsertCapacityDataRaises
    \/ InsertConnectionData
    \/ InsertConnectionDataRaises
    \/ InsertConstraintData
    \/ InsertConstraintDataRaises
    \/ InsertInvestmentData
    \/ InsertInvestmentDataRaises
    \/ InsertDocumentMetadata
    \/ CreateViews
    \/ CreateViewsRaises
    \/ Commit
    \/ Close
    \/ CloseRaising
    \/ CreateDatabaseAgain

SpecLoader == InitLoader /\ [][NextLoader]_vars

(***************************************************************************)
(* Where an invocation of create_database stands.                          *)
(***************************************************************************)
\* insert_capacity_data has run and the connection is still open
CapacityInserted ==
    loader_pc \in {"insert_connection", "insert_constraint", "insert_investment",
                   "insert_metadata", "create_views", "commit", "close", "raising"}

\* the grid_capacity rows this invocation has inserted
NewCapacityRows ==
    SubSeq(db_conn.grid_capacity, Len(store_at_connect.grid_capacity) + 1,
           Len(db_conn.grid_capacity))

TypedTables ==
    << [table |-> "grid_capacity", data |-> "capacity_data"],
       [table |-> "grid_connections", data |-> "connection_data"],
       [table |-> "grid_constraints", data |-> "constraint_data"],
       [table |-> "investment_projects", data |-> "investment_data"] >>

(***************************************************************************)
(* C16.  Every grid_capacity row insert_capacity_data inserts for a record *)
(* whose first pair is (v, unit) holds v*1000 for GW, v*0.95 for MVA and v *)
(* for MW, the unit in either case of letters, and the unit 'MW'; value    *)
(* and unit are both NULL or both not; normalizing a stored value with its *)
(* stored unit gives the same value and unit.                              *)
(***************************************************************************)
C16_Normalized ==
    CapacityInserted =>
        LET items == Loaded(analysis_data.capacity_data)
        IN  /\ Len(NewCapacityRows) = Len(items)
            /\ \A i \in DOMAIN items :
                LET item == items[i]
                    row == NewCapacityRows[i]
                    paired == "values" \in DOMAIN item /\ item.values # << >>
                    v == ToFloat(item.values[1][1])
                    unit == item.values[1][2]
                IN  /\ paired /\ unit \in {"GW", "gw"}
                        => row.capacity_mw = v * 1000 /\ row.capacity_unit = "MW"
                    /\ paired /\ unit \in {"MVA", "mva"}
                        => row.capacity_mw * 100 = v * 95 /\ row.capacity_unit = "MW"
                    /\ paired /\ unit \in {"MW", "mw"}
                        => row.capacity_mw = v /\ row.capacity_unit = "MW"
                    /\ row.capacity_mw = Null <=> row.capacity_unit = NullText
                    /\ row.capacity_mw # Null => row.capacity_unit = "MW"
                    /\ row.capacity_mw # Null
                        => NormalizeUnit(row.capacity_mw, row.capacity_unit)
                               = << row.capacity_mw, row.capacity_unit >>

\* a load that has committed 95 MW for '100 mva' and 1500 MW for '1.5 GW'
C16_Witness ==
    /\ loader_pc = "done"
    /\ analysis_data.capacity_data =
           << CapacityItem(<< << "100", "mva" >> >>), CapacityItem(<< << "1.5", "GW" >> >>) >>
    /\ store.grid_capacity[1].capacity_mw = 95000
    /\ store.grid_capacity[1].capacity_unit = "MW"
    /\ store.grid_capacity[2].capacity_mw = 1500000

\* a row with NULL value and NULL unit next to a row in MW
C16_WitnessNull ==
    /\ CapacityInserted
    /\ Len(NewCapacityRows) = 2
    /\ NewCapacityRows[1].capacity_mw = Null /\ NewCapacityRows[1].capacity_unit = NullText
    /\ NewCapacityRows[2].capacity_mw = 100000 /\ NewCapacityRows[2].capacity_unit = "MW"

(***************************************************************************)
(* C17.  The store starting empty and every invocation reading the same    *)
(* analysis JSON: when an invocation of create_database has committed,     *)
(* document_metadata holds exactly one row per filename of                 *)
(* document_summaries, and each of the four typed tables holds the input's *)
(* records once per committed invocation, having grown by the input's      *)
(* record count in this invocation; at no point does the store hold fewer  *)
(* rows of a typed table than when the invocation connected.               *)
(***************************************************************************)
C17_Filenames ==
    {analysis_data.document_summaries[i][1] : i \in DOMAIN analysis_data.document_summaries}

C17_Committed == loader_pc \in {"close", "done"}

C17_UpsertAndGrowth ==
    /\ C17_Committed =>
        /\ \A f \in C17_Filenames :
               Cardinality({i \in DOMAIN store.document_metadata :
                               store.document_metadata[i].filename = f}) = 1
        /\ Len(store.document_metadata) = Cardinality(C17_Filenames)
        /\ \A t \in DOMAIN TypedTables :
               LET rows == store[TypedTables[t].table]
                   before == store_at_connect[TypedTables[t].table]
                   records == analysis_data[TypedTables[t].data]
               IN  /\ Len(rows) = Len(before) + Len(records)
                   /\ Len(rows) = committed_loads * Len(records)
    /\ \A t \in DOMAIN TypedTables :
           Len(store[TypedTables[t].table]) >= Len(store_at_connect[TypedTables[t].table])

\* the second committed invocation over two documents and two capacity
\* records: two metadata rows, both replaced, and four capacity rows
C17_Witness ==
    /\ loader_pc = "done"
    /\ committed_loads = 2
    /\ Len(analysis_data.capacity_data) = 2
    /\ Len(store.grid_capacity) = 4
    /\ Len(store.grid_connections) = 2
    /\ Len(store.document_metadata) = 2
    /\ store.metadata_seq = 4
    /\ \A i \in DOMAIN store.document_metadata : store.document_metadata[i].id > 2

(***************************************************************************)
(* C18.  An invocation of create_database that raised in an insert or in   *)
(* create_views leaves the rows of all five tables (and the views) as they *)
(* were when it connected; so does an invocation that has not committed    *)
(* yet; an invocation that completed has added a row for each record of    *)
(* the four lists and holds a row for each filename of the summaries.      *)
(***************************************************************************)
C18_Rows(db) ==
    << db.grid_capacity, db.grid_connections, db.grid_constraints,
       db.investment_projects, db.document_metadata, db.metadata_seq, db.views_created >>

C18_AllOrNothing ==
    /\ loader_pc \in {"raising", "raised"} => C18_Rows(store) = C18_Rows(store_at_connect)
    /\ loader_pc \notin {"close", "done", "connect"}
           => C18_Rows(store) = C18_Rows(store_at_connect)
    /\ loader_pc = "done" =>
        /\ store.grid_capacity =
               store_at_connect.grid_capacity \o
                   [i \in DOMAIN analysis_data.capacity_data |->
                       CapacityRow(analysis_data.capacity_data[i])]
        /\ store.grid_connections =
               store_at_connect.grid_connections \o
                   [i \in DOMAIN analysis_data.connection_data |->
                       ConnectionRow(analysis_data.connection_data[i])]
        /\ store.grid_constraints =
               store_at_connect.grid_constraints \o
                   [i \in DOMAIN analysis_data.constraint_data |->
                       ConstraintRow(analysis_data.constraint_data[i])]
        /\ store.investment_projects =
               store_at_connect.investment_projects \o
                   [i \in DOMAIN analysis_data.investment_data |->
                       InvestmentRow(analysis_data.investment_data[i])]
        /\ \A f \in C17_Filenames :
               \E i \in DOMAIN store.document_metadata :
                   /\ store.document_metadata[i].filename = f
                   /\ store.document_metadata[i].id > store_at_connect.metadata_seq
        /\ store.views_created

\* a second invocation that raised in create_views after inserting rows of
\* every table, the rows of the first invocation still there and no more
C18_Witness ==
    /\ loader_pc = "raised"
    /\ load_error = "sqlite3.Error"
    /\ loads = 2 /\ committed_loads = 1
    /\ Len(analysis_data.capacity_data) = 2
    /\ Len(store.grid_capacity) = 2
    /\ Len(store.investment_projects) = 1
    /\ Len(store.document_metadata) = 2
    /\ store.metadata_seq = 2

\* an invocation that raised on a connection record without text, after two
\* capacity rows and one connection row went into the transaction
C18_WitnessKeyError ==
    /\ loader_pc = "raised"
    /\ load_error = "KeyError"
    /\ Len(analysis_data.capacity_data) = 2
    /\ Len(analysis_data.connection_data) = 2
    /\ store.tables_created
    /\ store.grid_capacity = << >>
    /\ store.grid_connections = << >>

(***************************************************************************)
(* C19.  When an invocation of create_database has ended without a         *)
(* sqlite3 error, every record of the four lists that has its text has a   *)
(* row in the store from this invocation - a record without its text is    *)
(* skipped and the others are loaded.  An insert loop reads item['text']   *)
(* outside any try: the KeyError leaves create_database, the connection is *)
(* closed without a commit and no record of the invocation is loaded.      *)
(***************************************************************************)
C19_WellFormed(items) == SelectSeq(items, LAMBDA item : ~Malformed(item))

C19_AsClaimed ==
    (loader_pc \in {"done", "raised"} /\ load_error # "sqlite3.Error") =>
        \A t \in DOMAIN TypedTables :
            Len(store[TypedTables[t].table])
                = Len(store_at_connect[TypedTables[t].table])
                  + Len(C19_WellFormed(analysis_data[TypedTables[t].data]))

(***************************************************************************)
(* TSODocumentHarvester.download_document.  A path under output_dir is     *)
(* << country, file name >>; local_files maps the paths that exist to the  *)
(* bytes of their files; a response body is a sequence of bytes.           *)
(***************************************************************************)
MaxDownloads == 2

\* re.sub(r'[^\w\-_\.]', '_', filename)
SafeFilename(filename) ==
    CASE filename = "grid plan.pdf" -> "grid_plan.pdf"
      [] filename = "plan?id=7" -> "plan_id_7"
      [] OTHER -> filename

\* country_dir / safe_filename
LocalPath(doc) == << doc.country, SafeFilename(doc.filename) >>

PdfBytes == << "%", "P", "D", "F", "-", "1" >>
HtmlBytes == << "<", "h", "t", "m", "l", ">" >>

\* first_bytes.startswith(b'%PDF')
StartsWithMagic(body) ==
    Len(body) >= 4 /\ SubSeq(body, 1, 4) = << "%", "P", "D", "F" >>

ContentTypes == {"application/pdf", "Application/PDF", "text/html", ""}

\* 'pdf' in content_type, after response.headers.get('content-type', '').lower()
DeclaresPdf(content_type) == content_type \in {"application/pdf", "Application/PDF"}

\* `if 'pdf' not in content_type:`, the only place the signature is read
SignatureChecked(content_type) == ~DeclaresPdf(content_type)

\* whether download_document returns None for the payload
Rejected(resp) == SignatureChecked(resp.content_type) /\ ~StartsWithMagic(resp.body)

Documents ==
    { [country |-> "Finland", filename |-> f, url |-> u] :
        f \in {"grid plan.pdf", "grid_plan.pdf"}, u \in {"https://www.fingrid.fi/plan.pdf"} }
    \cup { [country |-> "Finland", filename |-> "plan?id=7",
            url |-> "https://www.fingrid.fi/plan?id=7"] }

\* session.get and raise_for_status: a response, an HTTP error status, or a
\* RequestException
Responses ==
    { [outcome |-> "ok", content_type |-> c, body |-> b] :
        c \in ContentTypes,
        b \in {PdfBytes, HtmlBytes, << >>, << "%", "P", "D" >>} }
    \cup { [outcome |-> o, content_type |-> "", body |-> << >>] :
             o \in {"http_error", "exception"} }
    \cup { [outcome |-> "interrupted", content_type |-> c, body |-> << "%", "P", "D" >>] :
             c \in {"application/pdf", "text/html"} }

\* the files under output_dir before the first call
InitialFiles == { NoFiles, [p \in {<< "Finland", "grid_plan.pdf" >>} |-> PdfBytes] }

\* mutant: the target path is never found
Exists_Never(path) == FALSE

\* local_path.exists()
Exists_local(path) == path \in DOMAIN local_files

not_download_vars ==
    << validator_vars, analyzer_vars, loader_vars, discover_vars, extract_vars,
       harvest_vars >>

HarvesterInit ==
    /\ local_files \in InitialFiles
    /\ doc_info \in Documents
    /\ response \in Responses
    /\ download_result = None
    /\ requests_sent = 0
    /\ fetched = FALSE
    /\ downloads = 1
    /\ before_call = NoCall(local_files)
    /\ harvester_pc = "called"

\* `if local_path.exists(): return str(local_path)`
DownloadExisting ==
    /\ harvester_pc = "called"
    /\ Exists_local(LocalPath(doc_info))
    /\ download_result' = LocalPath(doc_info)
    /\ harvester_pc' = "returned"
    /\ UNCHANGED << local_files, doc_info, response, requests_sent, fetched, downloads,
                    before_call, not_download_vars >>

\* session.get or raise_for_status raises a RequestException: return None
DownloadFails ==
    /\ harvester_pc = "called"
    /\ ~Exists_local(LocalPath(doc_info))
    /\ \/ response.outcome \in {"http_error", "exception"}
       \/ response.outcome = "interrupted" /\ SignatureChecked(response.content_type)
    /\ requests_sent' = requests_sent + 1
    /\ fetched' = TRUE
    /\ download_result' = None
    /\ harvester_pc' = "returned"
    /\ UNCHANGED << local_files, doc_info, response, downloads, before_call,
                    not_download_vars >>

\* the payload is neither declared nor signed as a PDF: return None
DownloadRejected ==
    /\ harvester_pc = "called"
    /\ ~Exists_local(LocalPath(doc_info))
    /\ response.outcome = "ok"
    /\ Rejected(response)
    /\ requests_sent' = requests_sent + 1
    /\ fetched' = TRUE
    /\ download_result' = None
    /\ harvester_pc' = "returned"
    /\ UNCHANGED << local_files, doc_info, response, downloads, before_call,
                    not_download_vars >>

\* the payload is written to local_path, which is returned
DownloadSaved ==
    /\ harvester_pc = "called"
    /\ ~Exists_local(LocalPath(doc_info))
    /\ response.outcome = "ok"
    /\ ~Rejected(response)
    /\ requests_sent' = requests_sent + 1
    /\ fetched' = TRUE
    /\ local_files' =
           [p \in DOMAIN local_files \cup {LocalPath(doc_info)} |->
               IF p = LocalPath(doc_info) THEN response.body ELSE local_files[p]]
    /\ download_result' = LocalPath(doc_info)
    /\ harvester_pc' = "returned"
    /\ UNCHANGED << doc_info, response, downloads, before_call, not_download_vars >>

\* the connection breaks while iter_content feeds the opened file: the bytes
\* received so far stay in local_path and None is returned
DownloadInterrupted ==
    /\ harvester_pc = "called"
    /\ ~Exists_local(LocalPath(doc_info))
    /\ response.outcome = "interrupted"
    /\ ~SignatureChecked(response.content_type)
    /\ requests_sent' = requests_sent + 1
    /\ fetched' = TRUE
    /\ local_files' =
           [p \in DOMAIN local_files \cup {LocalPath(doc_info)} |->
               IF p = LocalPath(doc_info) THEN response.body ELSE local_files[p]]
    /\ download_result' = None
    /\ harvester_pc' = "returned"
    /\ UNCHANGED << doc_info, response, downloads, before_call, not_download_vars >>

\* download_document called for another document, or for the same one again
DownloadNext ==
    /\ harvester_pc = "returned"
    /\ downloads < MaxDownloads
    /\ doc_info' \in Documents
    /\ response' \in Responses
    /\ downloads' = downloads + 1
    /\ fetched' = FALSE
    /\ download_result' = None
    /\ before_call' = [doc_info |-> doc_info, result |-> download_result,
                       fetched |-> fetched, files |-> local_files]
    /\ harvester_pc' = "called"
    /\ UNCHANGED << local_files, requests_sent, not_download_vars >>

InitHarvester ==
    /\ HarvesterInit /\ DiscoverIdle /\ ExtractIdle /\ HarvestIdle
    /\ ValidatorIdle /\ AnalyzerIdle /\ LoaderIdle

NextHarvester ==
    \/ DownloadExisting
    \/ DownloadFails
    \/ DownloadRejected
    \/ DownloadSaved
    \/ DownloadInterrupted
    \/ DownloadNext

SpecHarvester == InitHarvester /\ [][NextHarvester]_vars

(***************************************************************************)
(* C20.  When download_document has fetched a response whose body does not *)
(* begin with %PDF, whatever its content type and URL, it has returned     *)
(* None and there is no file at the target path.  The signature is read    *)
(* only if the content type does not name pdf: a body served as            *)
(* application/pdf is written whatever it holds.                           *)
(***************************************************************************)
C20_AsClaimed ==
    ( /\ harvester_pc = "returned"
      /\ fetched
      /\ response.outcome = "ok"
      /\ ~StartsWithMagic(response.body) )
        => /\ download_result = None
           /\ ~Exists_local(LocalPath(doc_info))

(***************************************************************************)
(* C21.  download_document skips what is already there: a call that finds   *)
(* its target path among the local files sends no request, leaves every    *)
(* file as it was and returns that path; and a call for the document whose *)
(* previous call returned a path sends no request and returns that path.   *)
(***************************************************************************)
Returned == harvester_pc = "returned"

FoundLocally == LocalPath(doc_info) \in DOMAIN before_call.files

SameDocumentAgain == before_call.doc_info = doc_info

C21_Idempotent ==
    Returned =>
        /\ FoundLocally =>
               /\ ~fetched
               /\ local_files = before_call.files
               /\ download_result = LocalPath(doc_info)
        /\ (SameDocumentAgain /\ before_call.result # None) =>
               /\ ~fetched
               /\ download_result = before_call.result

\* a second call for a document whose first call fetched and saved it
C21_Witness ==
    /\ Returned
    /\ SameDocumentAgain
    /\ before_call.fetched
    /\ before_call.result # None
    /\ download_result = before_call.result
    /\ ~fetched

\* C21 as stated: two calls for the same document fetch at most once and
\* return the same value, whatever the first call came to
C21_AsStated ==
    (Returned /\ SameDocumentAgain) =>
        /\ ~(before_call.fetched /\ fetched)
        /\ download_result = before_call.result

(***************************************************************************)
(* TSODocumentHarvester.discover_documents.  A page is what one base URL   *)
(* answers: a request failure, or the file names its links point to, with  *)
(* the number of links handled before handling a link raises.              *)
(***************************************************************************)
\* self.tso_sources[country]['document_urls']
document_urls(c) ==
    CASE c = "Finland" ->
           << "fingrid.fi/grid-development", "fingrid.fi/grid-development-plan",
              "fingrid.fi/connecting-to-the-grid", "fingrid.fi/investment-plan" >>
      [] c = "Norway" ->
           << "statnett.no/grid-development", "statnett.no/system-operation" >>
      [] OTHER -> << >>

\* `country not in self.tso_sources`
Configured(c) == c \in {"Finland", "Norway"}

LinkNames ==
    {"grid_plan.pdf", "Investment-Plan-2024.PDF", "grid_development.pdf",
     "annual_report.pdf", "grid_plan.html"}

\* full_url.lower().endswith('.pdf')
EndsWithPdf(filename) == filename # "grid_plan.html"

\* some pattern of tso_info['pdf_patterns'] matches the file name, ignoring case
MatchesPattern(c, filename) ==
    CASE c = "Finland" -> filename \in {"grid_plan.pdf", "Investment-Plan-2024.PDF"}
      [] c = "Norway" -> filename = "grid_development.pdf"
      [] OTHER -> FALSE

\* the doc_info records one page adds to discovered_docs, in link order
RECURSIVE FoundOn(_, _, _)
FoundOn(c, base_url, links) ==
    IF links = << >> THEN << >>
    ELSE LET rest == FoundOn(c, base_url, Tail(links))
             filename == Head(links)
         IN IF EndsWithPdf(filename) /\ MatchesPattern(c, filename)
            THEN << [country |-> c, filename |-> filename, url |-> base_url] >> \o rest
            ELSE rest

LinkLists ==
    { << >>, << "grid_plan.pdf" >>, << "grid_plan.html", "grid_development.pdf" >>,
      << "annual_report.pdf", "Investment-Plan-2024.PDF", "grid_plan.pdf" >> }

DiscoverInit ==
    /\ country \in {"Finland", "Norway", "Iceland"}
    /\ url_index = 1
    /\ scanned = << >>
    /\ discovered_docs = << >>
    /\ discover_pc = "called"

not_discover_vars ==
    << validator_vars, analyzer_vars, loader_vars, download_vars, extract_vars,
       harvest_vars >>

\* `if country not in self.tso_sources: return []`
DiscoverUnknown ==
    /\ discover_pc = "called"
    /\ ~Configured(country)
    /\ discover_pc' = "returned"
    /\ UNCHANGED << country, url_index, scanned, discovered_docs, not_discover_vars >>

\* the loop is entered
DiscoverStart ==
    /\ discover_pc = "called"
    /\ Configured(country)
    /\ discover_pc' = "scanning"
    /\ UNCHANGED << country, url_index, scanned, discovered_docs, not_discover_vars >>

BaseUrl == document_urls(country)[url_index]

\* mutant: a failed scan leaves the loop
AfterFailure_Break(i) == Len(document_urls(country)) + 1

\* `continue` in both except clauses
AfterFailure(i) == i + 1

\* the page is fetched and every link on it is handled
ScanPage ==
    /\ discover_pc = "scanning"
    /\ url_index <= Len(document_urls(country))
    /\ \E links \in LinkLists :
          /\ scanned' = Append(scanned, [url |-> BaseUrl, outcome |-> "ok", links |-> links])
          /\ discovered_docs' = discovered_docs \o FoundOn(country, BaseUrl, links)
    /\ url_index' = url_index + 1
    /\ UNCHANGED << country, discover_pc, not_discover_vars >>

\* session.get or raise_for_status raises a RequestException
ScanRequestFails ==
    /\ discover_pc = "scanning"
    /\ url_index <= Len(document_urls(country))
    /\ scanned' = Append(scanned, [url |-> BaseUrl, outcome |-> "request_error",
                                   links |-> << >>])
    /\ url_index' = AfterFailure(url_index)
    /\ UNCHANGED << country, discovered_docs, discover_pc, not_discover_vars >>

\* parsing the page or handling one of its links raises: the documents of the
\* links handled before it stay in discovered_docs
ScanParseFails ==
    /\ discover_pc = "scanning"
    /\ url_index <= Len(document_urls(country))
    /\ \E links \in LinkLists : \E handled \in 0 .. Len(links) :
          /\ scanned' = Append(scanned, [url |-> BaseUrl, outcome |-> "parse_error",
                                         links |-> links])
          /\ discovered_docs' =
                 discovered_docs \o FoundOn(country, BaseUrl, SubSeq(links, 1, handled))
    /\ url_index' = AfterFailure(url_index)
    /\ UNCHANGED << country, discover_pc, not_discover_vars >>

\* `return discovered_docs`
DiscoverReturn ==
    /\ discover_pc = "scanning"
    /\ url_index > Len(document_urls(country))
    /\ discover_pc' = "returned"
    /\ UNCHANGED << country, url_index, scanned, discovered_docs, not_discover_vars >>

InitDiscover ==
    /\ DiscoverInit /\ DownloadIdle /\ ExtractIdle /\ HarvestIdle
    /\ ValidatorIdle /\ AnalyzerIdle /\ LoaderIdle

NextDiscover ==
    \/ DiscoverUnknown
    \/ DiscoverStart
    \/ ScanPage
    \/ ScanRequestFails
    \/ ScanParseFails
    \/ DiscoverReturn

SpecDiscover == InitDiscover /\ [][NextDiscover]_vars

(***************************************************************************)
(* C22.  When discover_documents has returned, the base URLs it attempted  *)
(* are the configured ones, each once and in order, whatever failed; and   *)
(* every matching document of every page that was scanned without failure  *)
(* is in the returned list.  No step of the call leaves it by raising.     *)
(***************************************************************************)
AttemptedUrls == [i \in DOMAIN scanned |-> scanned[i].url]

C22_FailuresSkipped ==
    discover_pc = "returned" =>
        /\ AttemptedUrls = document_urls(country)
        /\ \A i \in DOMAIN scanned :
              scanned[i].outcome = "ok" =>
                  \A d \in Range(FoundOn(country, scanned[i].url, scanned[i].links)) :
                      d \in Range(discovered_docs)

\* a failed scan followed by a scan that found a document, which is returned
C22_Witness ==
    /\ discover_pc = "returned"
    /\ \E i, j \in DOMAIN scanned :
          /\ i < j
          /\ scanned[i].outcome # "ok"
          /\ scanned[j].outcome = "ok"
          /\ FoundOn(country, scanned[j].url, scanned[j].links) # << >>
    /\ discovered_docs # << >>

(***************************************************************************)
(* TSODocumentHarvester.extract_text_from_pdf.  A file is missing, holds   *)
(* bytes that are no PDF, or is a PDF that each library may or may not     *)
(* open; each page gives each library's extract_text an outcome: it        *)
(* raises, returns None, returns '' or '\n', or returns the page's text.   *)
(* Text is a sequence of words and "\n".                                   *)
(***************************************************************************)
MaxPdfPages == 2

PageWord(i) == << "one", "two", "three", "four" >>[i]

\* what extract_text returns for page i when it returns a string
PageText(kind, i) ==
    CASE kind = "text" -> << PageWord(i) >>
      [] kind = "newline" -> << "\n" >>
      [] OTHER -> << >>

PdfPages ==
    [plumber : {"raises", "none", "newline", "text"},
     pypdf : {"raises", "none", "empty", "text"}]

PdfPaths ==
    { MissingFile,
      [kind |-> "not_pdf", plumber_opens |-> FALSE, pypdf_opens |-> FALSE, pages |-> << >>] }
    \cup { [kind |-> "pdf", plumber_opens |-> a, pypdf_opens |-> b, pages |-> ps] :
             a \in BOOLEAN, b \in BOOLEAN,
             ps \in UNION { [1 .. n -> PdfPages] : n \in 0 .. MaxPdfPages } }

ExtractInit ==
    /\ pdf_path \in PdfPaths
    /\ extract_page = 0
    /\ extracted = << >>
    /\ extract_result = None
    /\ fallback_tried = FALSE
    /\ extract_pc = "called"

not_extract_vars ==
    << validator_vars, analyzer_vars, loader_vars, download_vars, discover_vars,
       harvest_vars >>

\* `with pdfplumber.open(pdf_path) as pdf:` and `text = ""`
PlumberOpen ==
    /\ extract_pc = "called"
    /\ pdf_path.plumber_opens
    /\ extract_pc' = "plumber"
    /\ extract_page' = 1
    /\ extracted' = << >>
    /\ UNCHANGED << pdf_path, extract_result, fallback_tried, not_extract_vars >>

\* pdfplumber.open raises: the outer except returns None
PlumberOpenRaises ==
    /\ extract_pc = "called"
    /\ ~pdf_path.plumber_opens
    /\ extract_result' = None
    /\ extract_pc' = "returned"
    /\ UNCHANGED << pdf_path, extract_page, extracted, fallback_tried, not_extract_vars >>

\* `if page_text:`, the truth value of what pdfplumber's extract_text returned
Truthy(kind) == kind \in {"text", "newline"}

\* one turn of `for page in pdf.pages:`
PlumberPage ==
    /\ extract_pc = "plumber"
    /\ extract_page <= Len(pdf_path.pages)
    /\ pdf_path.pages[extract_page].plumber # "raises"
    /\ extracted' =
           IF Truthy(pdf_path.pages[extract_page].plumber)
           THEN extracted \o PageText(pdf_path.pages[extract_page].plumber, extract_page)
                          \o << "\n" >>
           ELSE extracted
    /\ extract_page' = extract_page + 1
    /\ UNCHANGED << pdf_path, extract_result, fallback_tried, extract_pc, not_extract_vars >>

\* pdfplumber's extract_text raises on a page: the outer except returns None
PlumberPageRaises ==
    /\ extract_pc = "plumber"
    /\ extract_page <= Len(pdf_path.pages)
    /\ pdf_path.pages[extract_page].plumber = "raises"
    /\ extract_result' = None
    /\ extract_pc' = "returned"
    /\ UNCHANGED << pdf_path, extract_page, extracted, fallback_tried, not_extract_vars >>

\* `if text.strip(): return text`
PlumberReturn ==
    /\ extract_pc = "plumber"
    /\ extract_page > Len(pdf_path.pages)
    /\ Strip(extracted) # << >>
    /\ extract_result' = extracted
    /\ extract_pc' = "returned"
    /\ UNCHANGED << pdf_path, extract_page, extracted, fallback_tried, not_extract_vars >>

\* pdfplumber gave no text: `reader = PyPDF2.PdfReader(file)` and `text = ""`
FallbackOpen ==
    /\ extract_pc = "plumber"
    /\ extract_page > Len(pdf_path.pages)
    /\ Strip(extracted) = << >>
    /\ fallback_tried' = TRUE
    /\ pdf_path.pypdf_opens
    /\ extract_pc' = "pypdf"
    /\ extract_page' = 1
    /\ extracted' = << >>
    /\ UNCHANGED << pdf_path, extract_result, not_extract_vars >>

\* PyPDF2.PdfReader raises: the outer except returns None
FallbackOpenRaises ==
    /\ extract_pc = "plumber"
    /\ extract_page > Len(pdf_path.pages)
    /\ Strip(extracted) = << >>
    /\ fallback_tried' = TRUE
    /\ ~pdf_path.pypdf_opens
    /\ extract_result' = None
    /\ extract_pc' = "returned"
    /\ UNCHANGED << pdf_path, extract_page, extracted, not_extract_vars >>

\* one turn of `for page in reader.pages:`; extract_text raising, or returning
\* None so that `+ "\n"` raises, is caught and the page is passed over
FallbackPage ==
    /\ extract_pc = "pypdf"
    /\ extract_page <= Len(pdf_path.pages)
    /\ extracted' =
           IF pdf_path.pages[extract_page].pypdf \in {"raises", "none"}
           THEN extracted
           ELSE extracted \o PageText(pdf_path.pages[extract_page].pypdf, extract_page)
                          \o << "\n" >>
    /\ extract_page' = extract_page + 1
    /\ UNCHANGED << pdf_path, extract_result, fallback_tried, extract_pc, not_extract_vars >>

\* mutant: the fallback's text is returned as it is
TextOrNone_Text(text) == text

\* `text if text.strip() else None`
TextOrNone(text) == IF Strip(text) # << >> THEN text ELSE None

\* `return text if text.strip() else None`
FallbackReturn ==
    /\ extract_pc = "pypdf"
    /\ extract_page > Len(pdf_path.pages)
    /\ extract_result' = TextOrNone(extracted)
    /\ extract_pc' = "returned"
    /\ UNCHANGED << pdf_path, extract_page, extracted, fallback_tried, not_extract_vars >>

InitExtract ==
    /\ ExtractInit /\ DownloadIdle /\ DiscoverIdle /\ HarvestIdle
    /\ ValidatorIdle /\ AnalyzerIdle /\ LoaderIdle

NextExtract ==
    \/ PlumberOpen
    \/ PlumberOpenRaises
    \/ PlumberPage
    \/ PlumberPageRaises
    \/ PlumberReturn
    \/ FallbackOpen
    \/ FallbackOpenRaises
    \/ FallbackPage
    \/ FallbackReturn

SpecExtract == InitExtract /\ [][NextExtract]_vars

ExtractReturned == extract_pc = "returned"

(***************************************************************************)
(* C23.  extract_text_from_pdf never returns None without PyPDF2 having    *)
(* been tried.  A failure of pdfplumber, in opening the file or on a page, *)
(* goes to the outer except clause, which returns None at once.            *)
(***************************************************************************)
C23_AsClaimed ==
    (ExtractReturned /\ extract_result = None) => fallback_tried

(***************************************************************************)
(* C24.  When extract_text of one page fails, the text of every page that  *)
(* both libraries can read is still in the result.  A page on which        *)
(* pdfplumber raises ends the call with None.                              *)
(***************************************************************************)
Readable(i) ==
    /\ pdf_path.pages[i].plumber = "text"
    /\ pdf_path.pages[i].pypdf = "text"

FailingPages ==
    { i \in DOMAIN pdf_path.pages :
        pdf_path.pages[i].plumber = "raises" \/ pdf_path.pages[i].pypdf = "raises" }

C24_AsClaimed ==
    (ExtractReturned /\ pdf_path.plumber_opens /\ pdf_path.pypdf_opens
       /\ Cardinality(FailingPages) = 1) =>
        \A i \in DOMAIN pdf_path.pages :
            Readable(i) => PageWord(i) \in Range(extract_result)

(***************************************************************************)
(* C25.  extract_text_from_pdf ends by returning, for every file: either   *)
(* None or a text that holds more than whitespace.                         *)
(***************************************************************************)
C25_NeverRaises ==
    /\ extract_pc \in {"idle", "called", "plumber", "pypdf", "returned"}
    /\ ExtractReturned =>
           \/ extract_result = None
           \/ Strip(extract_result) # << >>

\* None for a file that is no PDF, and text from the fallback after a page failed
C25_Witness ==
    /\ ExtractReturned
    /\ \/ pdf_path.kind = "not_pdf" /\ extract_result = None
       \/ /\ fallback_tried
          /\ \E i \in DOMAIN pdf_path.pages : pdf_path.pages[i].pypdf = "raises"
          /\ extract_result # None

(***************************************************************************)
(* The pipeline: analyze_fingrid_documents on a folder of one document,    *)
(* export_to_json, then create_grid_database.py's main: the loader reads   *)
(* the JSON file, create_database, export_for_arcgis.  json.dump and       *)
(* json.load turn the (number, unit) tuples into lists; both are sequences *)
(* here, and every other value is a dict, a list, a string or an int.      *)
(***************************************************************************)
\* results of analyze_fingrid_documents for the one document analysed
Results(analysis) ==
    [ capacity_data |-> analysis.capacity_info,
      connection_data |-> analysis.connection_info,
      constraint_data |-> analysis.constraint_info,
      investment_data |-> analysis.investment_info,
      document_summaries |-> << << analysis.file_name, analysis >> >> ]

\* the documents of the pipeline: one that cannot be opened, one without
\* pages, some whose pages give no text, and some with one page of text
PipelinePdfs ==
    { PdfFile("Fingrid.pdf", FALSE, << >>),
      PdfFile("Fingrid.pdf", TRUE, << >>),
      PdfFile("Fingrid.pdf", TRUE, << NoTextPage >>),
      PdfFile("Fingrid.pdf", TRUE, << FailingPage, NoTextPage >>),
      PdfFile("Fingrid.pdf", TRUE, << Page("text", << >>) >>),
      PdfFile("Fingrid.pdf", TRUE, << NoTextPage, Page("text", << "Capacity", "100", "MW" >>) >>),
      PdfFile("Fingrid.pdf", TRUE, << Page("text", << "capacity", "1.5", "GW" >>) >>) }
    \cup { PdfFile("Fingrid.pdf", TRUE, << Page("text", t) >>) : t \in SampleSentences }

PipelineInit ==
    /\ pdf_file \in PipelinePdfs
    /\ page_num = 0
    /\ doc_analysis = InitialAnalysis(pdf_file.name)
    /\ analyzer_pc = "open"

\* the analysis goes through data/grid_intelligence_analysis.json into
\* GridIntelligenceDatabase.__init__
HandOver ==
    /\ analyzer_pc = "done"
    /\ loader_pc = "idle"
    /\ analysis_data' = Results(doc_analysis)
    /\ loader_pc' = "connect"
    /\ UNCHANGED << store, db_conn, loads, load_error, store_at_connect, committed_loads,
                    not_loader_vars >>

\* SELECT * FROM grid_capacity WHERE capacity_mw IS NOT NULL
WithCapacity(rows) == SelectSeq(rows, LAMBDA row : row.capacity_mw # Null)

\* the rows of connection_summary: one per connection_type
ConnectionSummary(db) == { row.connection_type : row \in Range(db.grid_connections) }

\* the rows of investment_timeline: one per (timeline, currency) with a timeline
InvestmentTimeline(db) ==
    { << row.timeline, row.currency >> :
        row \in { r \in Range(db.investment_projects) : r.timeline # << >> } }

\* data/grid_intelligence.db as sqlite3 shows it to the validator
DbFileOf(db) ==
    DbFile("sqlite",
           IF db.tables_created THEN Range(ExpectedTables) ELSE {},
           0,
           IF db.views_created THEN 3 ELSE 0,
           [t \in Range(ExpectedTables) |-> Len(db[t])],
           db.tables_created,
           Len(WithCapacity(db.grid_capacity)))

\* export_for_arcgis writes the three files from the committed database
ExportForArcgis ==
    /\ loader_pc = "done"
    /\ csv_files' =
           Exports(CsvFile("csv", Len(WithCapacity(store.grid_capacity)), CapacityColumns),
                   CsvFile("csv", Cardinality(ConnectionSummary(store)), ConnectionColumns),
                   CsvFile("csv", Cardinality(InvestmentTimeline(store)), InvestmentColumns))
    /\ db_file' = DbFileOf(store)
    /\ loader_pc' = "exported"
    /\ UNCHANGED << cwd_files, data_dir, analysis_file, report_md, config_file,
                    cohesion_report, validation_results, stage_scores, pc, run, first_run,
                    analysis_data, store, db_conn, loads, load_error,
                    store_at_connect, committed_loads, analyzer_vars, harvester_vars >>

\* both programs are run once more, on another document
NextRound ==
    /\ loader_pc = "exported"
    /\ loads < MaxLoads
    /\ pdf_file' \in PipelinePdfs
    /\ page_num' = 0
    /\ doc_analysis' = InitialAnalysis(pdf_file'.name)
    /\ analyzer_pc' = "open"
    /\ loader_pc' = "idle"
    /\ UNCHANGED << analysis_data, store, db_conn, loads, load_error, store_at_connect,
                    committed_loads, validator_vars, harvester_vars >>

InitPipeline == PipelineInit /\ LoaderIdle /\ ValidatorIdle /\ HarvesterIdle

\* the insert loops raise on no record of analyze_pdf, all of which carry
\* their text
NextPipeline ==
    \/ OpenPdf
    \/ OpenPdfFails
    \/ AnalyzePage
    \/ SkipPage
    \/ PageFails
    \/ ReturnAnalysis
    \/ HandOver
    \/ Connect
    \/ CreateTables
    \/ InsertCapacityData
    \/ InsertConnectionData
    \/ InsertConstraintData
    \/ InsertInvestmentData
    \/ InsertDocumentMetadata
    \/ CreateViews
    \/ Commit
    \/ Close
    \/ ExportForArcgis
    \/ NextRound

SpecPipeline == InitPipeline /\ [][NextPipeline]_vars

LoadFinished == loader_pc \in {"done", "exported"}

\* no page of the document gives text to analyze_pdf
NoPageYieldsText ==
    \A i \in DOMAIN pdf_file.pages :
        pdf_file.pages[i].kind # "text" \/ pdf_file.pages[i].text = << >>

MetadataOf(filename) ==
    { row \in Range(store.document_metadata) : row.filename = filename }

(***************************************************************************)
(* C26.  A document none of whose pages gives text has, once loaded, added *)
(* no row to the four typed tables and has a document_metadata row with    *)
(* pages_processed 0 and four counts of 0.  analyze_pdf sets               *)
(* pages_processed to len(pdf.pages) before it asks any page for its text, *)
(* so the row of such a document counts its pages.                         *)
(***************************************************************************)
C26_AsClaimed ==
    (LoadFinished /\ NoPageYieldsText) =>
        /\ \A t \in Range(TypedTables) : store[t.table] = store_at_connect[t.table]
        /\ \E row \in MetadataOf(pdf_file.name) :
              /\ row.pages_processed = 0
              /\ row.capacity_points = 0
              /\ row.connection_points = 0
              /\ row.constraint_points = 0
              /\ row.investment_points = 0

(***************************************************************************)
(* C28.  After analysis, load and export, round after round from an empty  *)
(* store: every row of grid_capacity has a capacity_mw, the capacity       *)
(* export has as many rows as the table, and the validator finds the data  *)
(* preserved.  No insert loop meets a record it raises on.                 *)
(***************************************************************************)
C28_CapacityPreserved ==
    /\ loader_pc = "insert_capacity" => ~Raises(analysis_data.capacity_data)
    /\ loader_pc = "exported" =>
           /\ \A row \in Range(store.grid_capacity) : row.capacity_mw # Null
           /\ csv_files["grid_capacity_arcgis.csv"].rows = Len(store.grid_capacity)
           /\ check_database_export_flow.data_preserved

\* two rounds, each of which added a capacity row
C28_Witness ==
    /\ loader_pc = "exported"
    /\ loads = 2
    /\ store_at_connect.grid_capacity # << >>
    /\ Len(store.grid_capacity) > Len(store_at_connect.grid_capacity)

(***************************************************************************)
(* C27.  Once identify_gaps has run, a stage has a data-flow gap entry if   *)
(* and only if calculate_data_flow_score gives it 40.  A store file that   *)
(* cannot be read has the status 'corrupted', which scores 40 and is none  *)
(* of the statuses identify_gaps reports.                                  *)
(***************************************************************************)
C27_AsClaimed ==
    GapsIdentified =>
        \A i \in DOMAIN StageOrder :
            StageOrder[i] \in DOMAIN validation_results.data_flow =>
                ( StageScore(StatusAt(i)) = 40
                    <=> \E g \in GapsOfKind("Data Flow Gap") :
                            GapList[g].name = StageOrder[i] )

(***************************************************************************)
(* TSODocumentHarvester.harvest_all_countries and, called by it for each   *)
(* country, harvest_country_documents.  What discover_documents,           *)
(* download_document, extract_text_from_pdf and analyze_queue_content      *)
(* answer for a document is chosen at the step that calls them.  Scores    *)
(* are whole numbers, their averages are in hundredths.                    *)
(***************************************************************************)
MaxDocs == 2

\* self.tso_sources.keys(), as far as document_urls models them
Countries == << "Finland", "Norway" >>

RelevanceScores == {0, 100}

not_harvest_vars ==
    << validator_vars, analyzer_vars, loader_vars, download_vars, discover_vars,
       extract_vars >>

HarvestInit ==
    /\ country_index = 1
    /\ all_results = InitialAllResults
    /\ harvest_results = NoHarvest
    /\ doc_index = 0
    /\ doc_errors = 0
    /\ harvest_pc = "countries"

Country == Countries[country_index]

\* `if not discovered_docs:` and the dict returned there
HarvestNoDocuments ==
    /\ harvest_pc = "countries"
    /\ country_index <= Len(Countries)
    /\ harvest_results' = [country |-> Country, documents_processed |-> 0, documents |-> << >>]
    /\ doc_index' = 0
    /\ doc_errors' = 0
    /\ harvest_pc' = "country_returned"
    /\ UNCHANGED << country_index, all_results, not_harvest_vars >>

\* discover_documents found documents: harvest_results is set up
HarvestStart ==
    /\ harvest_pc = "countries"
    /\ country_index <= Len(Countries)
    /\ \E n \in 1 .. MaxDocs :
          harvest_results' =
              [ country |-> Country,
                documents_discovered |-> n,
                documents_processed |-> 0,
                documents_downloaded |-> 0,
                documents_analyzed |-> 0,
                total_relevance_score |-> 0,
                documents |-> << >> ]
    /\ doc_index' = 1
    /\ doc_errors' = 0
    /\ harvest_pc' = "documents"
    /\ UNCHANGED << country_index, all_results, not_harvest_vars >>

MoreDocuments == doc_index <= harvest_results.documents_discovered

\* doc_result, and the two statements that record it
Recorded(results, downloaded, analysed) ==
    [results EXCEPT
        !.documents = Append(@, [downloaded |-> downloaded, analysed |-> analysed]),
        !.documents_processed = @ + 1]

\* download_document returns None: the document is recorded as not downloaded
DocNotDownloaded ==
    /\ harvest_pc = "documents"
    /\ MoreDocuments
    /\ harvest_results' = Recorded(harvest_results, FALSE, FALSE)
    /\ doc_index' = doc_index + 1
    /\ UNCHANGED << country_index, all_results, doc_errors, harvest_pc, not_harvest_vars >>

\* download_document returns a path: documents_downloaded += 1
DocDownloaded ==
    /\ harvest_pc = "documents"
    /\ MoreDocuments
    /\ harvest_results' = [harvest_results EXCEPT !.documents_downloaded = @ + 1]
    /\ harvest_pc' = "downloaded"
    /\ UNCHANGED << country_index, all_results, doc_index, doc_errors, not_harvest_vars >>

\* extract_text_from_pdf returns None
DocNoText ==
    /\ harvest_pc = "downloaded"
    /\ harvest_results' = Recorded(harvest_results, TRUE, FALSE)
    /\ doc_index' = doc_index + 1
    /\ harvest_pc' = "documents"
    /\ UNCHANGED << country_index, all_results, doc_errors, not_harvest_vars >>

\* the text is analysed
DocAnalyzed ==
    /\ harvest_pc = "downloaded"
    /\ \E score \in RelevanceScores :
          harvest_results' =
              Recorded([harvest_results EXCEPT
                           !.documents_analyzed = @ + 1,
                           !.total_relevance_score = @ + score],
                       TRUE, TRUE)
    /\ doc_index' = doc_index + 1
    /\ harvest_pc' = "documents"
    /\ UNCHANGED << country_index, all_results, doc_errors, not_harvest_vars >>

\* mutant: an exception ends the loop over the documents
AfterDocError_Break(i) == harvest_results.documents_discovered + 1

\* `continue` in the except clause of the loop over the documents
AfterDocError(i) == i + 1

\* the analysis of the text raises: logged, and the loop continues
DocRaises ==
    /\ harvest_pc = "downloaded"
    /\ doc_errors' = doc_errors + 1
    /\ doc_index' = AfterDocError(doc_index)
    /\ harvest_pc' = "documents"
    /\ UNCHANGED << country_index, all_results, harvest_results, not_harvest_vars >>

\* total_relevance_score / documents_analyzed, or 0
AverageRelevance(results) ==
    IF results.documents_analyzed > 0
    THEN (results.total_relevance_score * 100) \div results.documents_analyzed
    ELSE 0

\* the average is added and harvest_results is returned
HarvestCountryReturn ==
    /\ harvest_pc = "documents"
    /\ ~MoreDocuments
    /\ harvest_results' =
           harvest_results @@ ("average_relevance_score" :> AverageRelevance(harvest_results))
    /\ harvest_pc' = "country_returned"
    /\ UNCHANGED << country_index, all_results, doc_index, doc_errors, not_harvest_vars >>

WithCountry(results) ==
    [results EXCEPT !.countries = (Country :> harvest_results) @@ @]

\* mutant: the country is counted after its counters have been added
ProcessedBeforeKeyError_After(n) == n

\* summary['countries_processed'] += 1 stands in front of the first counter read
ProcessedBeforeKeyError(n) == n + 1

\* the body of the loop over the countries, for a result with its counters
SummariseCountry ==
    /\ harvest_pc = "country_returned"
    /\ "documents_discovered" \in DOMAIN harvest_results
    /\ LET higher ==
               harvest_results.average_relevance_score
                   > all_results.summary.highest_relevance_score
       IN  all_results' =
               [WithCountry(all_results) EXCEPT
                   !.summary.countries_processed = @ + 1,
                   !.summary.total_documents_discovered =
                       @ + harvest_results.documents_discovered,
                   !.summary.total_documents_downloaded =
                       @ + harvest_results.documents_downloaded,
                   !.summary.total_documents_analyzed =
                       @ + harvest_results.documents_analyzed,
                   !.summary.highest_relevance_score =
                       IF higher THEN harvest_results.average_relevance_score ELSE @,
                   !.summary.highest_relevance_country =
                       IF higher THEN Country ELSE @]
    /\ country_index' = country_index + 1
    /\ harvest_pc' = "countries"
    /\ UNCHANGED << harvest_results, doc_index, doc_errors, not_harvest_vars >>

\* the body of the loop for the result of a country without documents:
\* country_results['documents_discovered'] raises KeyError, which is logged
SummariseCountryKeyError ==
    /\ harvest_pc = "country_returned"
    /\ "documents_discovered" \notin DOMAIN harvest_results
    /\ all_results' =
           [WithCountry(all_results) EXCEPT
               !.summary.countries_processed = ProcessedBeforeKeyError(@)]
    /\ country_index' = country_index + 1
    /\ harvest_pc' = "countries"
    /\ UNCHANGED << harvest_results, doc_index, doc_errors, not_harvest_vars >>

\* `return all_results`
HarvestAllReturn ==
    /\ harvest_pc = "countries"
    /\ country_index > Len(Countries)
    /\ harvest_pc' = "returned"
    /\ UNCHANGED << country_index, all_results, harvest_results, doc_index, doc_errors,
                    not_harvest_vars >>

InitHarvest ==
    /\ HarvestInit /\ DownloadIdle /\ DiscoverIdle /\ ExtractIdle
    /\ ValidatorIdle /\ AnalyzerIdle /\ LoaderIdle

NextHarvest ==
    \/ HarvestNoDocuments
    \/ HarvestStart
    \/ DocNotDownloaded
    \/ DocDownloaded
    \/ DocNoText
    \/ DocAnalyzed
    \/ DocRaises
    \/ HarvestCountryReturn
    \/ SummariseCountry
    \/ SummariseCountryKeyError
    \/ HarvestAllReturn

SpecHarvest == InitHarvest /\ [][NextHarvest]_vars

(***************************************************************************)
(* C29.  While harvest_country_documents runs and after it has returned,   *)
(* its counters are ordered: analyzed <= downloaded <= discovered and      *)
(* processed <= discovered; the documents list has as many entries as      *)
(* documents_processed; and when it returns, every discovered document     *)
(* but those whose processing raised has been processed.                   *)
(***************************************************************************)
HasCounters == "documents_discovered" \in DOMAIN harvest_results

C29_CountersOrdered ==
    HasCounters =>
        /\ harvest_results.documents_analyzed <= harvest_results.documents_downloaded
        /\ harvest_results.documents_downloaded <= harvest_results.documents_discovered
        /\ harvest_results.documents_processed <= harvest_results.documents_discovered
        /\ Len(harvest_results.documents) = harvest_results.documents_processed
        /\ harvest_pc = "country_returned" =>
               harvest_results.documents_processed
                   = harvest_results.documents_discovered - doc_errors

\* the first document raised and the second was processed
C29_Witness ==
    /\ HasCounters
    /\ harvest_pc = "country_returned"
    /\ harvest_results.documents_discovered = 2
    /\ doc_errors = 1
    /\ harvest_results.documents_processed = 1
    /\ harvest_results.documents_analyzed = 1

(***************************************************************************)
(* C30.  When harvest_all_countries has returned, every configured country *)
(* has an entry in the countries map, countries_processed is the number of *)
(* configured countries, the countries without documents, whose result     *)
(* has no counters, included, and each total is the sum of its counter     *)
(* over the countries that report it.                                      *)
(***************************************************************************)
Reported(key) ==
    LET with == SelectSeq(Countries,
                          LAMBDA c : /\ c \in DOMAIN all_results.countries
                                     /\ key \in DOMAIN all_results.countries[c])
    IN  SumSeq([i \in DOMAIN with |-> all_results.countries[with[i]][key]])

C30_EveryCountryCounted ==
    harvest_pc = "returned" =>
        /\ DOMAIN all_results.countries = Range(Countries)
        /\ all_results.summary.countries_processed = Len(Countries)
        /\ all_results.summary.total_documents_discovered = Reported("documents_discovered")
        /\ all_results.summary.total_documents_downloaded = Reported("documents_downloaded")
        /\ all_results.summary.total_documents_analyzed = Reported("documents_analyzed")

\* one country without documents and one with an analysed document
C30_Witness ==
    /\ harvest_pc = "returned"
    /\ \E c \in Range(Countries) :
          "documents_discovered" \notin DOMAIN all_results.countries[c]
    /\ all_results.summary.total_documents_analyzed > 0

====
